---- MODULE Spec2Model ----
(***************************************************************************)
(* Model of the synthetic-data service: the persistent schema cache        *)
(* (src/services/cache_service.py over src/utils/file_operations.py) and   *)
(* the cache-key validator (src/utils/hash_utils.py).                      *)
(*                                                                         *)
(* Two specifications are given over the same state:                       *)
(*   Spec      one SchemaCache client at a time: every handler is one      *)
(*             action; the environment may corrupt or lock away the files  *)
(*             and an I/O fault may hit any step of a write.               *)
(*   ConcSpec  several processes sharing the cache file path, interleaved  *)
(*             at the granularity of the system calls of file_lock,        *)
(*             read_json_file and write_json_file.                         *)
(***************************************************************************)
EXTENDS Integers, Sequences, FiniteSets, TLC

VARIABLES
    primary,    \* content of settings.CACHE_FILE_PATH
    backup,     \* content of <cache file>.backup
    last,       \* Spec: the handler call that completed last (history)
    pc,         \* ConcSpec: per process, the next system call
    loc,        \* ConcSpec: per process, the locals of its handler
    lock,       \* ConcSpec: holder of flock(primary), 0 when free
    hist,       \* ConcSpec: what has been observed so far (history)
    gov,        \* GovSpec: the rate-limit state of one AnthropicSchemaGenerator
    acq,        \* AcqSpec: the generate_schema requests of that generator
    fld,        \* FieldSpec: a field of a schema on its way to a generator
    syn,        \* DataSpec: a call of DataGenerator.generate_data
    txt         \* KeySpec: a description and its cache key

vars == <<primary, backup, last, pc, loc, lock, hist, gov, acq, fld, syn, txt>>

----------------------------------------------------------------------------
(* Bounds of the model *)

\* number of distinct well-formed cache keys in play
NKeys == 2

(* Program constants *)

\* hash_utils.py: len(hash_string) != 64
HashLen == 64

----------------------------------------------------------------------------
(* Cache keys as strings.  A string is a run-length list of characters;   *)
(* the characters stand for the classes Python's int(s, 16) tells apart:  *)
(*   "0" the digit zero      "a" any other hexadecimal digit              *)
(*   "x" the letters x, X    "+" a sign (+ or -)                          *)
(*   "_" the underscore      " " white space      "g" anything else       *)

Run(c, n) == [c |-> c, n |-> n]

RECURSIVE Expand(_)
Expand(runs) ==
    IF runs = <<>> THEN <<>>
    ELSE [i \in 1..Head(runs).n |-> Head(runs).c] \o Expand(Tail(runs))

\* the well-formed key number i: i hexadecimal letters, then zeros
GoodKeyText(i) == <<Run("a", i), Run("0", HashLen - i)>>

\* malformed keys offered to get and put
BadKeyIds == 101..110

BadKeyText(i) ==
    CASE i = 101 -> <<>>
      [] i = 102 -> <<Run("a", HashLen - 1)>>
      [] i = 103 -> <<Run("a", HashLen + 1)>>
      [] i = 104 -> <<Run("g", HashLen)>>
      [] i = 105 -> <<Run("+", 1), Run("a", HashLen - 1)>>
      [] i = 106 -> <<Run("0", 1), Run("x", 1), Run("a", HashLen - 2)>>
      [] i = 107 -> <<Run(" ", 1), Run("a", HashLen - 2), Run(" ", 1)>>
      [] i = 108 -> <<Run("a", 31), Run("_", 1), Run("a", HashLen - 32)>>
      [] i = 109 -> <<Run("a", 31), Run("_", 2), Run("a", HashLen - 33)>>
      [] i = 110 -> <<Run("a", HashLen - 1), Run("_", 1)>>

GoodKeyIds == 1..NKeys

KeyIds == GoodKeyIds \cup BadKeyIds

KeyText(i) == IF i \in GoodKeyIds THEN Expand(GoodKeyText(i)) ELSE Expand(BadKeyText(i))

IsHexDigit(c) == c \in {"0", "a"}

\* str.strip() of the white space int() ignores on both sides
Strip(s) ==
    LET idx == {i \in 1..Len(s) : s[i] # " "}
    IN  IF idx = {} THEN <<>>
        ELSE SubSeq(s, CHOOSE i \in idx : \A j \in idx : i <= j,
                       CHOOSE i \in idx : \A j \in idx : i >= j)

SkipSign(s) == IF s # <<>> /\ s[1] = "+" THEN Tail(s) ELSE s

\* base 16: an optional 0x prefix, after which one underscore is allowed
SkipPrefix(s) ==
    IF Len(s) >= 2 /\ s[1] = "0" /\ s[2] = "x"
    THEN LET t == SubSeq(s, 3, Len(s))
         IN  IF t # <<>> /\ t[1] = "_" THEN Tail(t) ELSE t
    ELSE s

\* at least one digit, single underscores only between digits
DigitString(s) ==
    /\ s # <<>>
    /\ s[1] # "_"
    /\ s[Len(s)] # "_"
    /\ \A i \in 1..Len(s) : IsHexDigit(s[i]) \/ s[i] = "_"
    /\ \A i \in 1..(Len(s) - 1) : ~(s[i] = "_" /\ s[i + 1] = "_")

\* int(hash_string, 16) does not raise ValueError
ParsesAsHex(s) == DigitString(SkipPrefix(SkipSign(Strip(s))))

validate_hash(s) ==
    IF s = <<>> THEN FALSE
    ELSE IF Len(s) # HashLen THEN FALSE
    ELSE ParsesAsHex(s)

\* the keys in play that validate_hash accepts, evaluated once
ValidKeyIds == {i \in KeyIds : validate_hash(KeyText(i))}

----------------------------------------------------------------------------
(* Values *)

\* datetime.isoformat(): the text of an instant
isoformat(t) == [iso |-> TRUE, t |-> t]

\* a created_at text that datetime.fromisoformat rejects
BadDate == [iso |-> FALSE, t |-> 0]

EntryFields == {"description_hash", "fields_schema", "created_at", "domain"}

TopKeys == {"version", "created_at", "schemas", "metadata"}

MetaKeys == {"total_schemas", "last_updated"}

\* the GeneratedSchema number v produced for key k (models.py): the
\* generator stores the key as description_hash
GeneratedSchema(k, v) ==
    [description_hash |-> k, fields_schema |-> v, created_at |-> 10 + v, domain |-> 20 + v]

NoSchema == [description_hash |-> 0, fields_schema |-> 0, created_at |-> 0, domain |-> 0]

\* the schema payloads offered to put: two, to tell an overwrite apart
SchemaIds == {1, 2}

\* a variant of SchemaEntry that stores the time of writing in place of
\* the schema's created_at
SchemaEntryStamped(s) ==
    [isdict |-> TRUE, has |-> EntryFields,
     description_hash |-> s.description_hash,
     fields_schema |-> s.fields_schema,
     created_at |-> isoformat(s.created_at + 1),
     domain |-> s.domain]

\* the JSON object save_schema stores for a schema
SchemaEntry(s) ==
    [isdict |-> TRUE, has |-> EntryFields,
     description_hash |-> s.description_hash,
     fields_schema |-> s.fields_schema,
     created_at |-> isoformat(s.created_at),
     domain |-> s.domain]

(* File contents.  kind is "absent" (no such file), "empty", "partial" or  *)
(* "garbage" (text json.load rejects), "nonobject" (JSON whose top level   *)
(* is an array or a string), "scalar" (JSON whose top level is null or a   *)
(* number) or "object"; for an object, has is the set of its               *)
(* top-level keys, schemas its "schemas" mapping, metaHas the keys of its  *)
(* "metadata" and total the value of total_schemas.  The values of the     *)
(* time stamps created_at and last_updated of the container are left out:  *)
(* no handler reads them, only their presence matters.                     *)

Text(kind) ==
    [kind |-> kind, has |-> {}, schemas |-> <<>>, metaHas |-> {}, total |-> 0]

Object(has, schemas, metaHas, total) ==
    [kind |-> "object", has |-> has, schemas |-> schemas, metaHas |-> metaHas, total |-> total]

\* _initialize_cache: default_cache
DefaultCache == Object(TopKeys, <<>>, MetaKeys, 0)

Exists(f) == f.kind # "absent"

\* parsed JSON values that are no dict
NonObjects == {"nonobject", "scalar"}

\* the number of bytes json.dump writes grows with the number of entries
Size(f) == IF f.kind = "object" THEN 1 + Cardinality(DOMAIN f.schemas) ELSE 0

\* read_json_file: the exception raised, or "none" and the parsed data
read_json_file(f, isDenied) ==
    IF ~Exists(f) THEN [err |-> "FileNotFoundError", data |-> f]
    ELSE IF isDenied THEN [err |-> "PermissionError", data |-> f]
    ELSE IF f.kind \in {"empty", "partial", "garbage"} THEN [err |-> "JSONDecodeError", data |-> f]
    ELSE [err |-> "none", data |-> f]

\* datetime.fromisoformat on a stored created_at text
fromisoformat(d) == d.t

\* GeneratedSchema(description_hash=schema_data["description_hash"], ...):
\* the exception raised, or "none" and the schema object
BuildSchema(e) ==
    IF ~e.isdict THEN [err |-> "TypeError", schema |-> NoSchema]
    ELSE IF e.has # EntryFields THEN [err |-> "KeyError", schema |-> NoSchema]
    ELSE IF ~e.created_at.iso THEN [err |-> "ValueError", schema |-> NoSchema]
    ELSE [err |-> "none",
          schema |-> [description_hash |-> e.description_hash,
                      fields_schema |-> e.fields_schema,
                      created_at |-> fromisoformat(e.created_at),
                      domain |-> e.domain]]

\* cache_data.get("schemas", {})
SchemasOf(data) == IF "schemas" \in data.has THEN data.schemas ELSE <<>>

Result(out, schema, via) == [out |-> out, schema |-> schema, via |-> via]

\* _recover_from_backup: its except clause turns FileNotFoundError,
\* JSONDecodeError and OSError into None; anything else propagates
RecoverFromBackup(back, backDenied, k) ==
    IF ~Exists(back) THEN Result("absent", NoSchema, "backup")
    ELSE LET r == read_json_file(back, backDenied)
         IN  IF r.err # "none" THEN Result("absent", NoSchema, "backup")
             ELSE IF r.data.kind \in NonObjects THEN Result("AttributeError", NoSchema, "backup")
             ELSE IF k \notin DOMAIN SchemasOf(r.data) THEN Result("absent", NoSchema, "backup")
             ELSE LET b == BuildSchema(SchemasOf(r.data)[k])
                  IN  IF b.err # "none" THEN Result(b.err, NoSchema, "backup")
                      ELSE Result("found", b.schema, "backup")

\* get_cached_schema: the exception that leaves it, "absent" (None) or
\* "found" and the schema; via tells which file answered
get_cached_schema(prim, back, den, k) ==
    IF k \notin ValidKeyIds THEN Result("ValueError", NoSchema, "none")
    ELSE LET r == read_json_file(prim, "primary" \in den)
         IN  IF r.err \in {"FileNotFoundError", "JSONDecodeError"}
             THEN RecoverFromBackup(back, "backup" \in den, k)
             ELSE IF r.err = "PermissionError" THEN Result("CacheError", NoSchema, "primary")
             ELSE IF r.data.kind \in NonObjects THEN Result("AttributeError", NoSchema, "primary")
             ELSE IF k \notin DOMAIN SchemasOf(r.data) THEN Result("absent", NoSchema, "primary")
             ELSE LET b == BuildSchema(SchemasOf(r.data)[k])
                  IN  IF b.err # "none" THEN Result("CacheError", NoSchema, "primary")
                      ELSE Result("found", b.schema, "primary")

----------------------------------------------------------------------------
(* Writing *)

(* The I/O fault that hits a call of write_json_file, by the step it hits: *)
(*   "copy_early"    shutil.copy2 to the backup fails before writing it    *)
(*   "copy_partial"  shutil.copy2 fails after truncating the backup        *)
(*   "open"          open(file_path, 'w') is refused                       *)
(*   "write_partial" json.dump/flush fails, part of the text reached the   *)
(*                   file (possibly none of it)                            *)
(*   "fsync"         os.fsync fails after the whole text was written       *)
(*   "crash_partial" the process dies during the write                     *)
Faults ==
    {"none", "copy_early", "copy_partial", "open", "write_partial", "fsync", "crash_partial"}

CopyFaults == {"copy_early", "copy_partial"}

WriteFaults == {"open", "write_partial", "fsync"}

CrashFaults == {"crash_partial"}

\* a variant of write_json_file that takes no backup copy before it writes
write_json_file_uncopied(prim, back, data, create_backup, fault, restoreOk) ==
    LET copyFails == create_backup /\ Exists(prim) /\ fault \in CopyFaults
        prim1 == IF copyFails \/ fault = "open" THEN prim
                 ELSE IF fault \in {"write_partial", "crash_partial"} THEN Text("partial")
                 ELSE data
        err == IF copyFails \/ fault \in WriteFaults THEN "OSError"
               ELSE IF fault \in CrashFaults THEN "crash"
               ELSE "none"
        restore == err = "OSError" /\ create_backup /\ Exists(back) /\ restoreOk
    IN  [primary |-> IF restore THEN back ELSE prim1, backup |-> back, err |-> err]

\* write_json_file(file_path, data, create_backup) under fault; restoreOk
\* tells whether the best-effort shutil.copy2(backup_path, file_path) works
write_json_file(prim, back, data, create_backup, fault, restoreOk) ==
    LET doCopy == create_backup /\ Exists(prim)
        copyFails == doCopy /\ fault \in CopyFaults
        back1 == IF ~doCopy \/ fault = "copy_early" THEN back
                 ELSE IF fault = "copy_partial" THEN Text("partial")
                 ELSE prim
        prim1 == IF copyFails \/ fault = "open" THEN prim
                 ELSE IF fault \in {"write_partial", "crash_partial"} THEN Text("partial")
                 ELSE data
        err == IF copyFails \/ fault \in WriteFaults THEN "OSError"
               ELSE IF fault \in CrashFaults THEN "crash"
               ELSE "none"
        restore == err = "OSError" /\ create_backup /\ Exists(back1) /\ restoreOk
    IN  [primary |-> IF restore THEN back1 ELSE prim1, backup |-> back1, err |-> err]

\* save_schema lines 115-124: the entry added, the metadata updated
UpdatedCache(data, k, s) ==
    LET schemas == [x \in DOMAIN data.schemas \cup {k} |->
                        IF x = k THEN SchemaEntry(s) ELSE data.schemas[x]]
    IN  [data EXCEPT !.schemas = schemas,
                     !.metaHas = @ \cup MetaKeys,
                     !.total = Cardinality(DOMAIN schemas)]

\* _recreate_cache_with_schema: new_cache
RecreatedCache(k, s) ==
    Object(TopKeys, [x \in {k} |-> SchemaEntry(s)], MetaKeys, 1)

Outcome(prim, back, out, path) == [primary |-> prim, backup |-> back, out |-> out, path |-> path]

\* a variant of _recreate_cache_with_schema that writes with create_backup
\* left at its default, True
recreate_cache_with_backup(prim, back, k, s, fault, restoreOk) ==
    LET w == write_json_file(prim, back, RecreatedCache(k, s), TRUE, fault, restoreOk)
    IN  Outcome(w.primary, w.backup,
                IF w.err = "none" THEN "True" ELSE IF w.err = "OSError" THEN "False" ELSE "crashed",
                "recreate")

\* _recreate_cache_with_schema: write without backup; OSError gives False
recreate_cache_with_schema(prim, back, k, s, fault, restoreOk) ==
    LET w == write_json_file(prim, back, RecreatedCache(k, s), FALSE, fault, restoreOk)
    IN  Outcome(w.primary, w.backup,
                IF w.err = "none" THEN "True" ELSE IF w.err = "OSError" THEN "False" ELSE "crashed",
                "recreate")

\* save_schema: the files afterwards and True, False or the exception
save_schema(prim, back, den, k, s, fault, restoreOk) ==
    IF k \notin ValidKeyIds THEN Outcome(prim, back, "ValueError", "none")
    ELSE LET r == read_json_file(prim, "primary" \in den)
         IN  IF r.err \in {"FileNotFoundError", "JSONDecodeError"}
             THEN recreate_cache_with_schema(prim, back, k, s, fault, restoreOk)
             ELSE IF r.err = "PermissionError" THEN Outcome(prim, back, "CacheError", "none")
             ELSE IF r.data.kind \in NonObjects THEN Outcome(prim, back, "TypeError", "none")
             ELSE IF "schemas" \notin r.data.has THEN Outcome(prim, back, "KeyError", "none")
             ELSE IF "metadata" \notin r.data.has THEN Outcome(prim, back, "KeyError", "none")
             ELSE LET w == write_json_file(prim, back, UpdatedCache(r.data, k, s),
                                           TRUE, fault, restoreOk)
                  IN  Outcome(w.primary, w.backup,
                              IF w.err = "none" THEN "True"
                              ELSE IF w.err = "OSError" THEN "CacheError" ELSE "crashed",
                              "update")

\* ensure_file_exists(file_path, default_content): True when the file is
\* there, otherwise the content is written without a backup; an OSError
\* of the write is caught and gives False
ensure_file_exists(prim, back, default_content, fault) ==
    IF Exists(prim) THEN Outcome(prim, back, "True", "none")
    ELSE LET w == write_json_file(prim, back, default_content, FALSE, fault, TRUE)
         IN  Outcome(w.primary, w.backup,
                     IF w.err = "none" THEN "True" ELSE IF w.err = "OSError" THEN "False" ELSE "crashed",
                     "create")

\* clear_cache: _initialize_cache(), then True; ensure_file_exists lets no
\* OSError out, so the except clauses of lines 48 and 146 are not entered
clear_cache(prim, back, fault) ==
    LET e == ensure_file_exists(prim, back, DefaultCache, fault)
    IN  Outcome(e.primary, e.backup, IF e.out = "crashed" THEN "crashed" ELSE "True", e.path)

\* list_cached_hashes: the keys of "schemas", [] when the file cannot be
\* read; out is "ok" or the exception that leaves it
list_cached_hashes(f, isDenied) ==
    LET r == read_json_file(f, isDenied)
    IN  IF r.err # "none" THEN [out |-> "ok", hashes |-> {}]
        ELSE IF r.data.kind \in NonObjects THEN [out |-> "AttributeError", hashes |-> {}]
        ELSE [out |-> "ok", hashes |-> DOMAIN SchemasOf(r.data)]

----------------------------------------------------------------------------
(* The environment: what may happen to the files between two calls *)

\* is_cache_healthy on the cache file f: "True", "False" or the exception
\* that leaves it.  `key in cache_data` finds no key in an array or a
\* string and raises TypeError on null or a number
is_cache_healthy(f, isDenied) ==
    LET r == read_json_file(f, isDenied)
    IN  IF r.err # "none" THEN "False"
        ELSE IF r.data.kind = "scalar" THEN "TypeError"
        ELSE IF r.data.kind = "nonobject" THEN "False"
        ELSE IF ~({"version", "schemas", "metadata"} \subseteq r.data.has) THEN "False"
        ELSE IF ~(MetaKeys \subseteq r.data.metaHas) THEN "False"
        ELSE IF Cardinality(DOMAIN SchemasOf(r.data)) = r.data.total THEN "True"
        ELSE "False"

\* get_file_size: st_size, 0 when the file does not exist
get_file_size(f) ==
    IF f.kind \in {"absent", "empty"} THEN 0
    ELSE IF f.kind = "object" THEN 1 + Cardinality(DOMAIN f.schemas)
    ELSE 1

\* what get_cache_stats returns: total_schemas, whether last_updated is
\* not null, the two file sizes and whether the "error" key is present;
\* out is "ok" or the exception that leaves it
StatsResult(out, total, updated, size, backsize, error) ==
    [out |-> out, total_schemas |-> total, last_updated |-> updated,
     cache_file_size |-> size, backup_file_size |-> backsize, error |-> error]

\* get_cache_stats on the cache file f and the backup file b
get_cache_stats(f, b, isDenied) ==
    LET r == read_json_file(f, isDenied)
    IN  IF r.err # "none" THEN StatsResult("ok", 0, FALSE, 0, 0, TRUE)
        ELSE IF r.data.kind \in NonObjects THEN StatsResult("AttributeError", 0, FALSE, 0, 0, FALSE)
        ELSE StatsResult("ok",
                         IF "metadata" \in r.data.has /\ "total_schemas" \in r.data.metaHas
                         THEN r.data.total ELSE 0,
                         "metadata" \in r.data.has /\ "last_updated" \in r.data.metaHas,
                         get_file_size(f), get_file_size(b), FALSE)

\* entries as damaged storage may hold them: a created_at that is no
\* ISO date, a missing field
BrokenEntries(e) ==
    {[e EXCEPT !.created_at = BadDate],
     [e EXCEPT !.has = EntryFields \ {"domain"}]}

\* contents a damaged or replaced primary file may hold: no file, text that
\* is no JSON, JSON that is no object (an array, null), the object {}, a container without
\* metadata, one whose count is wrong, one with a broken entry
CorruptContents ==
    {Text("absent"), Text("garbage"), Text("nonobject"), Text("scalar"),
     Object({}, <<>>, {}, 0),
     Object(TopKeys \ {"metadata"}, <<>>, {}, 0),
     Object(TopKeys, <<>>, MetaKeys, 1)}
    \cup {Object(TopKeys, [x \in {1} |-> b], MetaKeys, 1) :
            b \in BrokenEntries(SchemaEntry(GeneratedSchema(1, 1)))}

\* contents a damaged backup file may hold
CorruptBackups ==
    {Text("absent"), Text("garbage"), Text("nonobject"),
     Object(TopKeys, [x \in {1} |-> [SchemaEntry(GeneratedSchema(1, 1)) EXCEPT !.created_at = BadDate]],
            MetaKeys, 1)}

Paths == {"primary", "backup"}

----------------------------------------------------------------------------
(* The request-rate governor of AnthropicSchemaGenerator.  Time is in      *)
(* seconds; the clock of the model moves in steps of a third of the        *)
(* window, which hits the boundary t = now - 60 exactly.                   *)

\* settings.RATE_LIMIT_REQUESTS_PER_MINUTE
PerMinute == 3

\* settings.RATE_LIMIT_REQUESTS_PER_DAY
PerDay == 4

\* cutoff_time = now.timestamp() - 60
WindowLen == 60

\* seconds in a calendar day: now.date() changes every DayLen seconds
DayLen == 86400

\* now.date()
Date(t) == t \div DayLen

\* __init__: the rate limiting tracking, at clock now.  The other fields
\* are history: busy, a request is between its admission and its record;
\* ev and d, the last event and the decision of the last admission check;
\* was, the decision of the check before it;
\* seen, the check+record cycles that came before the last check since the
\* check at time start found the window empty (-1: the run was broken by a
\* denial or an unrecorded request); streak, the same with the cycle of
\* the last check counted once recorded
NewGovernor(now) ==
    [times |-> <<>>, count |-> 0, reset |-> Date(now), now |-> now,
     busy |-> FALSE, ev |-> "init", d |-> "none", was |-> "none", seen |-> 0, streak |-> 0,
     start |-> now]

\* a variant of line 74 that keeps the instants at the cutoff (t >= cutoff)
PrunedInclusive(times, cutoff) ==
    LET kept == {i \in DOMAIN times : times[i] >= cutoff}
    IN  SubSeq(times, Len(times) - Cardinality(kept) + 1, Len(times))

\* the times of the list that are later than the cutoff, in order
RECURSIVE Pruned(_, _)
Pruned(times, cutoff) ==
    IF times = <<>> THEN <<>>
    ELSE IF Head(times) > cutoff THEN <<Head(times)>> \o Pruned(Tail(times), cutoff)
    ELSE Pruned(Tail(times), cutoff)

\* a variant of _check_rate_limits that denies only when the list is
\* longer than the per-minute ceiling
check_rate_limits_lenient(g) ==
    LET rolled == Date(g.now) > g.reset
        count1 == IF rolled THEN 0 ELSE g.count
        reset1 == IF rolled THEN Date(g.now) ELSE g.reset
        pruned == Pruned(g.times, g.now - WindowLen)
    IN  IF count1 >= PerDay
        THEN [g |-> [g EXCEPT !.count = count1, !.reset = reset1], decision |-> "daily"]
        ELSE [g |-> [g EXCEPT !.count = count1, !.reset = reset1, !.times = pruned],
              decision |-> IF Len(pruned) > PerMinute THEN "minute" ELSE "allow"]

\* a variant of _check_rate_limits that evaluates the per-minute check
\* before the daily one
check_rate_limits_minute_first(g) ==
    LET rolled == Date(g.now) > g.reset
        count1 == IF rolled THEN 0 ELSE g.count
        reset1 == IF rolled THEN Date(g.now) ELSE g.reset
        pruned == Pruned(g.times, g.now - WindowLen)
        g1 == [g EXCEPT !.count = count1, !.reset = reset1, !.times = pruned]
    IN  IF Len(pruned) >= PerMinute THEN [g |-> g1, decision |-> "minute"]
        ELSE IF count1 >= PerDay THEN [g |-> g1, decision |-> "daily"]
        ELSE [g |-> g1, decision |-> "allow"]

\* _check_rate_limits: the governor afterwards and the decision: "allow",
\* or RateLimitError with the "daily" or the "minute" message
check_rate_limits(g) ==
    LET rolled == Date(g.now) > g.reset
        count1 == IF rolled THEN 0 ELSE g.count
        reset1 == IF rolled THEN Date(g.now) ELSE g.reset
        pruned == Pruned(g.times, g.now - WindowLen)
    IN  IF count1 >= PerDay
        THEN [g |-> [g EXCEPT !.count = count1, !.reset = reset1], decision |-> "daily"]
        ELSE [g |-> [g EXCEPT !.count = count1, !.reset = reset1, !.times = pruned],
              decision |-> IF Len(pruned) >= PerMinute THEN "minute" ELSE "allow"]

\* a variant of _record_request that notes the instant but leaves the
\* daily counter alone
record_request_window_only(g) == [g EXCEPT !.times = Append(@, g.now)]

\* _record_request
record_request(g) == [g EXCEPT !.times = Append(@, g.now), !.count = @ + 1]

----------------------------------------------------------------------------
(* Schema acquisition: AnthropicSchemaGenerator.generate_schema *)

\* settings.MIN_DESCRIPTION_LENGTH
MinDescriptionLength == 10

\* settings.MAX_DESCRIPTION_LENGTH
MaxDescriptionLength == 4000

\* max_retries = 3
MaxRetries == 3

\* the cache keys of the descriptions requested: every request is for
\* the same normalised description
DescKeys == {1}

\* a description: its length and the cache key it hashes to
Descriptions ==
    [len : {MinDescriptionLength - 1, MinDescriptionLength,
            MaxDescriptionLength, MaxDescriptionLength + 1},
     id : DescKeys]

\* _generate_hash(description): generate_cache_key
generate_hash(desc) == desc.id

\* an exception raised by client.messages.create, by what its text
\* mentions: rl, "rate limit" or "429"; to, "timeout"
ProviderExceptions == [rl : BOOLEAN, to : BOOLEAN]

\* the texts an internal exception may carry
Texts == {"text1", "text2"}

\* what client.messages.create returns: a usable schema; an empty text;
\* text that is no JSON, or lacks domain or fields; a schema with a field
\* that _validate_schema rejects; or a response on which the code after
\* the call raises an exception it does not expect, with some text
Responses ==
    [kind : {"good"}, v : SchemaIds, text : {"none"}]
    \cup [kind : {"empty", "unparseable", "invalid"}, v : {0}, text : {"none"}]
    \cup [kind : {"unexpected"}, v : {0}, text : Texts]

\* what generate_schema gives its caller: a schema, from the cache or from
\* the provider, or an exception, by class and message
Success(schema, from) ==
    [ok |-> TRUE, kind |-> "none", message |-> <<>>, schema |-> schema, from |-> from]

Failure(kind, message) ==
    [ok |-> FALSE, kind |-> kind, message |-> message, schema |-> NoSchema, from |-> "none"]

NoResult == [ok |-> FALSE, kind |-> "none", message |-> <<>>, schema |-> NoSchema, from |-> "none"]

\* a variant of lines 311-329 without the call of _validate_schema on
\* line 320: a parsed response is taken for a schema as it is
handle_response_unvalidated(resp, k) ==
    CASE resp.kind \in {"good", "invalid"} -> Success(GeneratedSchema(k, resp.v), "provider")
      [] resp.kind = "empty" ->
            Failure("SchemaGenerationError",
                    <<"Schema generation failed: ", "Claude returned empty response">>)
      [] resp.kind = "unparseable" -> Failure("ParsingError", <<"Invalid JSON in Claude response">>)
      [] resp.kind = "unexpected" ->
            Failure("SchemaGenerationError", <<"Schema generation failed: ", resp.text>>)

\* lines 311-329 on a response, then the except clauses of lines 341-346:
\* the schema built, or the exception that leaves generate_schema
handle_response(resp, k) ==
    CASE resp.kind = "good" -> Success(GeneratedSchema(k, resp.v), "provider")
      [] resp.kind = "empty" ->
            Failure("SchemaGenerationError",
                    <<"Schema generation failed: ", "Claude returned empty response">>)
      [] resp.kind = "unparseable" -> Failure("ParsingError", <<"Invalid JSON in Claude response">>)
      [] resp.kind = "invalid" -> Failure("ValidationError", <<"Field configuration must be a dictionary">>)
      [] resp.kind = "unexpected" ->
            Failure("SchemaGenerationError", <<"Schema generation failed: ", resp.text>>)

\* generate_schema lines 260-269: the cache consulted inside try/except
\* Exception: pass; out is what get_cached_schema came to
cache_lookup(cache, prim, back, den, k) ==
    IF ~cache THEN [out |-> "disabled", schema |-> NoSchema]
    ELSE LET r == get_cached_schema(prim, back, den, k)
         IN  [out |-> r.out, schema |-> r.schema]

\* a variant of lines 296-306 that also retries a failure whose text
\* mentions a timeout
on_call_exception_retrying(attempt, e) ==
    IF e.rl \/ e.to
    THEN IF attempt < MaxRetries - 1
         THEN [next |-> "sleep", delay |-> 2 ^ attempt, res |-> NoResult]
         ELSE [next |-> "raise", delay |-> 0,
               res |-> Failure("RateLimitError", <<"Rate limit exceeded: ", "provider text">>)]
    ELSE [next |-> "raise", delay |-> 0,
          res |-> Failure("APIConnectionError", <<"Anthropic API error: ", "provider text">>)]

\* generate_schema lines 296-306: the except clause around the provider
\* call, on the exception e raised in pass attempt of the loop
on_call_exception(attempt, e) ==
    IF e.rl
    THEN IF attempt < MaxRetries - 1
         THEN [next |-> "sleep", delay |-> 2 ^ attempt, res |-> NoResult]
         ELSE [next |-> "raise", delay |-> 0,
               res |-> Failure("RateLimitError", <<"Rate limit exceeded: ", "provider text">>)]
    ELSE IF e.to
    THEN [next |-> "raise", delay |-> 0,
          res |-> Failure("APIConnectionError", <<"Request timeout: ", "provider text">>)]
    ELSE [next |-> "raise", delay |-> 0,
          res |-> Failure("APIConnectionError", <<"Anthropic API error: ", "provider text">>)]

\* a variant of lines 331-337 without the try/except around save_schema
cache_store_unguarded(cache, prim, back, den, k, schema, fault, restoreOk) ==
    IF ~cache THEN [primary |-> prim, backup |-> back, out |-> "disabled", raised |-> "none"]
    ELSE LET o == save_schema(prim, back, den, k, schema, fault, restoreOk)
         IN  [primary |-> o.primary, backup |-> o.backup, out |-> o.out,
              raised |-> IF o.out \in {"True", "False"} THEN "none" ELSE o.out]

\* generate_schema lines 331-337: the schema saved inside try/except
\* Exception: pass
cache_store(cache, prim, back, den, k, schema, fault, restoreOk) ==
    IF ~cache THEN [primary |-> prim, backup |-> back, out |-> "disabled", raised |-> "none"]
    ELSE LET o == save_schema(prim, back, den, k, schema, fault, restoreOk)
         IN  [primary |-> o.primary, backup |-> o.backup, out |-> o.out, raised |-> "none"]

\* no response of the provider
NoResponse == [kind |-> "none", v |-> 0, text |-> "none"]

\* a request in flight: where the coroutine stands ("idle": no request),
\* its cache key, the pass of the retry loop, the delays slept so far and
\* what the cache lookup came to
NewRequest == [pc |-> "idle", key |-> 0, attempt |-> 0, slept |-> <<>>, got |-> "none"]

\* a request that has left generate_schema: q as it stood, what the save
\* came to, the response handled and what the caller got
Completed(q, put, resp, res) ==
    [key |-> q.key, attempt |-> q.attempt, slept |-> q.slept, got |-> q.got,
     put |-> put, resp |-> resp, res |-> res]

\* the concurrent generate_schema requests of one generator
Reqs == 1..2

\* __init__: self.cache is a SchemaCache, or None when its construction
\* failed; req are the requests in flight; n, calls and done are
\* history: requests begun, provider calls issued, the request that
\* completed last
NewAcq(cache) ==
    [cache |-> cache, n |-> 0, calls |-> 0, req |-> [r \in Reqs |-> NewRequest],
     done |-> Completed(NewRequest, "none", NoResponse, NoResult)]

----------------------------------------------------------------------------
(* Field resolution: DataGenerator.map_schema_to_faker.  Method names,   *)
(* field names, categories and keywords are strings; where the code      *)
(* looks into a string (lower, split, substring) the string is taken by  *)
(* its characters.                                                       *)

\* the strings of field resolution, by their characters
Spell(s) ==
    CASE s = "" -> <<>>
      [] s = "Email" -> <<"E", "m", "a", "i", "l">>
      [] s = "Healthcare" -> <<"H", "e", "a", "l", "t", "h", "c", "a", "r", "e">>
      [] s = "None" -> <<"N", "o", "n", "e">>
      [] s = "account_type" -> <<"a", "c", "c", "o", "u", "n", "t", "_", "t", "y", "p", "e">>
      [] s = "active" -> <<"a", "c", "t", "i", "v", "e">>
      [] s = "address" -> <<"a", "d", "d", "r", "e", "s", "s">>
      [] s = "age" -> <<"a", "g", "e">>
      [] s = "amount" -> <<"a", "m", "o", "u", "n", "t">>
      [] s = "birth" -> <<"b", "i", "r", "t", "h">>
      [] s = "blood_type" -> <<"b", "l", "o", "o", "d", "_", "t", "y", "p", "e">>
      [] s = "brand" -> <<"b", "r", "a", "n", "d">>
      [] s = "category" -> <<"c", "a", "t", "e", "g", "o", "r", "y">>
      [] s = "city" -> <<"c", "i", "t", "y">>
      [] s = "comment" -> <<"c", "o", "m", "m", "e", "n", "t">>
      [] s = "company" -> <<"c", "o", "m", "p", "a", "n", "y">>
      [] s = "condition" -> <<"c", "o", "n", "d", "i", "t", "i", "o", "n">>
      [] s = "cost" -> <<"c", "o", "s", "t">>
      [] s = "count" -> <<"c", "o", "u", "n", "t">>
      [] s = "country" -> <<"c", "o", "u", "n", "t", "r", "y">>
      [] s = "created" -> <<"c", "r", "e", "a", "t", "e", "d">>
      [] s = "currency" -> <<"c", "u", "r", "r", "e", "n", "c", "y">>
      [] s = "customer_name" -> <<"c", "u", "s", "t", "o", "m", "e", "r", "_", "n", "a", "m", "e">>
      [] s = "date" -> <<"d", "a", "t", "e">>
      [] s = "degree" -> <<"d", "e", "g", "r", "e", "e">>
      [] s = "department" -> <<"d", "e", "p", "a", "r", "t", "m", "e", "n", "t">>
      [] s = "description" -> <<"d", "e", "s", "c", "r", "i", "p", "t", "i", "o", "n">>
      [] s = "ecommerce" -> <<"e", "c", "o", "m", "m", "e", "r", "c", "e">>
      [] s = "education" -> <<"e", "d", "u", "c", "a", "t", "i", "o", "n">>
      [] s = "email" -> <<"e", "m", "a", "i", "l">>
      [] s = "email_name" -> <<"e", "m", "a", "i", "l", "_", "n", "a", "m", "e">>
      [] s = "employer" -> <<"e", "m", "p", "l", "o", "y", "e", "r">>
      [] s = "enabled" -> <<"e", "n", "a", "b", "l", "e", "d">>
      [] s = "family" -> <<"f", "a", "m", "i", "l", "y">>
      [] s = "finance" -> <<"f", "i", "n", "a", "n", "c", "e">>
      [] s = "first" -> <<"f", "i", "r", "s", "t">>
      [] s = "first_name" -> <<"f", "i", "r", "s", "t", "_", "n", "a", "m", "e">>
      [] s = "fname" -> <<"f", "n", "a", "m", "e">>
      [] s = "foo_bar_123" -> <<"f", "o", "o", "_", "b", "a", "r", "_", "1", "2", "3">>
      [] s = "format" -> <<"f", "o", "r", "m", "a", "t">>
      [] s = "full_name" -> <<"f", "u", "l", "l", "_", "n", "a", "m", "e">>
      [] s = "gender" -> <<"g", "e", "n", "d", "e", "r">>
      [] s = "general" -> <<"g", "e", "n", "e", "r", "a", "l">>
      [] s = "given" -> <<"g", "i", "v", "e", "n">>
      [] s = "grade" -> <<"g", "r", "a", "d", "e">>
      [] s = "grade_level" -> <<"g", "r", "a", "d", "e", "_", "l", "e", "v", "e", "l">>
      [] s = "healthcare" -> <<"h", "e", "a", "l", "t", "h", "c", "a", "r", "e">>
      [] s = "id" -> <<"i", "d">>
      [] s = "insurance" -> <<"i", "n", "s", "u", "r", "a", "n", "c", "e">>
      [] s = "is_" -> <<"i", "s", "_">>
      [] s = "is_active" -> <<"i", "s", "_", "a", "c", "t", "i", "v", "e">>
      [] s = "is_valid" -> <<"i", "s", "_", "v", "a", "l", "i", "d">>
      [] s = "job" -> <<"j", "o", "b">>
      [] s = "language" -> <<"l", "a", "n", "g", "u", "a", "g", "e">>
      [] s = "last" -> <<"l", "a", "s", "t">>
      [] s = "lname" -> <<"l", "n", "a", "m", "e">>
      [] s = "mail" -> <<"m", "a", "i", "l">>
      [] s = "major" -> <<"m", "a", "j", "o", "r">>
      [] s = "marital_status" -> <<"m", "a", "r", "i", "t", "a", "l", "_", "s", "t", "a", "t", "u", "s">>
      [] s = "md5" -> <<"m", "d", "5">>
      [] s = "merchant_category" -> <<"m", "e", "r", "c", "h", "a", "n", "t", "_", "c", "a", "t", "e", "g", "o", "r", "y">>
      [] s = "mobile" -> <<"m", "o", "b", "i", "l", "e">>
      [] s = "name" -> <<"n", "a", "m", "e">>
      [] s = "nation" -> <<"n", "a", "t", "i", "o", "n">>
      [] s = "note" -> <<"n", "o", "t", "e">>
      [] s = "num" -> <<"n", "u", "m">>
      [] s = "number" -> <<"n", "u", "m", "b", "e", "r">>
      [] s = "order_status" -> <<"o", "r", "d", "e", "r", "_", "s", "t", "a", "t", "u", "s">>
      [] s = "organization" -> <<"o", "r", "g", "a", "n", "i", "z", "a", "t", "i", "o", "n">>
      [] s = "phone" -> <<"p", "h", "o", "n", "e">>
      [] s = "position" -> <<"p", "o", "s", "i", "t", "i", "o", "n">>
      [] s = "postal" -> <<"p", "o", "s", "t", "a", "l">>
      [] s = "price" -> <<"p", "r", "i", "c", "e">>
      [] s = "priority" -> <<"p", "r", "i", "o", "r", "i", "t", "y">>
      [] s = "product_type" -> <<"p", "r", "o", "d", "u", "c", "t", "_", "t", "y", "p", "e">>
      [] s = "province" -> <<"p", "r", "o", "v", "i", "n", "c", "e">>
      [] s = "random" -> <<"r", "a", "n", "d", "o", "m">>
      [] s = "rating" -> <<"r", "a", "t", "i", "n", "g">>
      [] s = "risk_level" -> <<"r", "i", "s", "k", "_", "l", "e", "v", "e", "l">>
      [] s = "role" -> <<"r", "o", "l", "e">>
      [] s = "salary" -> <<"s", "a", "l", "a", "r", "y">>
      [] s = "semester" -> <<"s", "e", "m", "e", "s", "t", "e", "r">>
      [] s = "shipping_method" -> <<"s", "h", "i", "p", "p", "i", "n", "g", "_", "m", "e", "t", "h", "o", "d">>
      [] s = "state" -> <<"s", "t", "a", "t", "e">>
      [] s = "status" -> <<"s", "t", "a", "t", "u", "s">>
      [] s = "street" -> <<"s", "t", "r", "e", "e", "t">>
      [] s = "subject" -> <<"s", "u", "b", "j", "e", "c", "t">>
      [] s = "surname" -> <<"s", "u", "r", "n", "a", "m", "e">>
      [] s = "tel" -> <<"t", "e", "l">>
      [] s = "timezone" -> <<"t", "i", "m", "e", "z", "o", "n", "e">>
      [] s = "title" -> <<"t", "i", "t", "l", "e">>
      [] s = "transaction_amount" -> <<"t", "r", "a", "n", "s", "a", "c", "t", "i", "o", "n", "_", "a", "m", "o", "u", "n", "t">>
      [] s = "transaction_type" -> <<"t", "r", "a", "n", "s", "a", "c", "t", "i", "o", "n", "_", "t", "y", "p", "e">>
      [] s = "treatment" -> <<"t", "r", "e", "a", "t", "m", "e", "n", "t">>
      [] s = "updated" -> <<"u", "p", "d", "a", "t", "e", "d">>
      [] s = "valid" -> <<"v", "a", "l", "i", "d">>
      [] s = "word" -> <<"w", "o", "r", "d">>
      [] s = "x1" -> <<"x", "1">>
      [] s = "year" -> <<"y", "e", "a", "r">>
      [] s = "zip" -> <<"z", "i", "p">>
      [] s = "{}" -> <<"{", "}">>

\* str.lower(), character by character
LowerChar(c) ==
    CASE c = "E" -> "e"
      [] c = "H" -> "h"
      [] c = "I" -> "i"
      [] c = "N" -> "n"
      [] OTHER -> c

\* str.lower()
Lower(s) == [i \in DOMAIN s |-> LowerChar(s[i])]

\* needle in hay, for two strings
Contains(hay, needle) ==
    \E i \in 0..(Len(hay) - Len(needle)) : SubSeq(hay, i + 1, i + Len(needle)) = needle

\* str.split('_')
RECURSIVE Split(_)
Split(s) ==
    IF \A i \in DOMAIN s : s[i] # "_" THEN <<s>>
    ELSE LET i == CHOOSE x \in DOMAIN s : s[x] = "_" /\ \A y \in 1..(x - 1) : s[y] # "_"
         IN  <<SubSeq(s, 1, i - 1)>> \o Split(SubSeq(s, i + 1, Len(s)))

\* the index of the first element of seq that satisfies P, 0 if none does
First(seq, P(_)) ==
    IF \E i \in DOMAIN seq : P(seq[i])
    THEN CHOOSE i \in DOMAIN seq : P(seq[i]) /\ \A x \in 1..(i - 1) : ~P(seq[x])
    ELSE 0

\* self.faker_methods: the names mapped in _init_faker_method_mapping (a
\* few of its entries; each is a bound method or a lambda without
\* arguments)
faker_methods == {"email", "name", "word", "random_int", "department", "currency"}

\* the attributes of the Faker instance, by what hasattr and getattr find:
\* "method0", a method that can be called without arguments; "method1",
\* one with a required argument (format(formatter)); "value", an
\* attribute that is no callable (random, a random.Random instance)
FakerAttrs ==
    [x \in {"email", "name", "word", "random_int", "currency", "timezone", "md5",
            "format", "random"} |->
        IF x = "format" THEN "method1" ELSE IF x = "random" THEN "value" ELSE "method0"]

\* self.domain_values: the domains in the order of the dictionary
Domains == <<"ecommerce", "healthcare", "finance", "education", "general">>

\* self.domain_values[d]: the categories of a domain in the order of the
\* dictionary
Categories(d) ==
    CASE d = "ecommerce" ->
            <<"category", "brand", "rating", "status", "product_type",
            "shipping_method">>
      [] d = "healthcare" ->
            <<"blood_type", "condition", "treatment", "insurance",
            "department", "priority">>
      [] d = "finance" ->
            <<"account_type", "transaction_type", "status",
            "merchant_category", "currency", "risk_level">>
      [] d = "education" ->
            <<"grade_level", "subject", "degree", "major", "semester", "grade">>
      [] d = "general" ->
            <<"gender", "marital_status", "priority", "status", "language",
            "timezone">>

\* self.domain_values[d][c]: the values of a category (numbers as text)
PoolValues(d, c) ==
    CASE d = "ecommerce" /\ c = "category" ->
            {"Electronics", "Clothing", "Books", "Home & Garden", "Sports",
            "Toys"}
      [] d = "ecommerce" /\ c = "brand" ->
            {"Apple", "Samsung", "Nike", "Adidas", "Sony", "Microsoft",
            "Amazon"}
      [] d = "ecommerce" /\ c = "rating" ->
            {"1", "2", "3", "4", "5"}
      [] d = "ecommerce" /\ c = "status" ->
            {"Active", "Inactive", "Discontinued", "Coming Soon"}
      [] d = "ecommerce" /\ c = "product_type" ->
            {"Physical", "Digital", "Service", "Subscription"}
      [] d = "ecommerce" /\ c = "shipping_method" ->
            {"Standard", "Express", "Overnight", "Free Shipping"}
      [] d = "healthcare" /\ c = "blood_type" ->
            {"A+", "A-", "B+", "B-", "AB+", "AB-", "O+", "O-"}
      [] d = "healthcare" /\ c = "condition" ->
            {"Diabetes", "Hypertension", "Asthma", "Arthritis",
            "Heart Disease"}
      [] d = "healthcare" /\ c = "treatment" ->
            {"Medication", "Physical Therapy", "Surgery", "Monitoring",
            "Lifestyle Change"}
      [] d = "healthcare" /\ c = "insurance" ->
            {"Medicare", "Medicaid", "Private", "Uninsured", "VA Benefits"}
      [] d = "healthcare" /\ c = "department" ->
            {"Cardiology", "Neurology", "Orthopedics", "Pediatrics",
            "Emergency"}
      [] d = "healthcare" /\ c = "priority" ->
            {"Low", "Medium", "High", "Critical"}
      [] d = "finance" /\ c = "account_type" ->
            {"Checking", "Savings", "Credit", "Investment", "Loan"}
      [] d = "finance" /\ c = "transaction_type" ->
            {"Deposit", "Withdrawal", "Transfer", "Payment", "Fee"}
      [] d = "finance" /\ c = "status" ->
            {"Pending", "Completed", "Failed", "Cancelled", "Processing"}
      [] d = "finance" /\ c = "merchant_category" ->
            {"Gas Station", "Grocery Store", "Restaurant", "Online Purchase",
            "ATM"}
      [] d = "finance" /\ c = "currency" ->
            {"USD", "EUR", "GBP", "CAD", "JPY"}
      [] d = "finance" /\ c = "risk_level" ->
            {"Low", "Medium", "High", "Very High"}
      [] d = "education" /\ c = "grade_level" ->
            {"Freshman", "Sophomore", "Junior", "Senior", "Graduate"}
      [] d = "education" /\ c = "subject" ->
            {"Mathematics", "Science", "English", "History", "Art",
            "Physical Education"}
      [] d = "education" /\ c = "degree" ->
            {"Bachelor", "Master", "PhD", "Associate", "Certificate"}
      [] d = "education" /\ c = "major" ->
            {"Computer Science", "Business", "Engineering", "Psychology",
            "Biology"}
      [] d = "education" /\ c = "semester" ->
            {"Fall", "Spring", "Summer", "Winter"}
      [] d = "education" /\ c = "grade" ->
            {"A+", "A", "A-", "B+", "B", "B-", "C+", "C", "C-", "D", "F"}
      [] d = "general" /\ c = "gender" ->
            {"Male", "Female", "Non-binary", "Prefer not to say"}
      [] d = "general" /\ c = "marital_status" ->
            {"Single", "Married", "Divorced", "Widowed", "Separated"}
      [] d = "general" /\ c = "priority" ->
            {"Low", "Medium", "High", "Critical"}
      [] d = "general" /\ c = "status" ->
            {"Active", "Inactive", "Pending", "Suspended"}
      [] d = "general" /\ c = "language" ->
            {"English", "Spanish", "French", "German", "Chinese", "Japanese"}
      [] d = "general" /\ c = "timezone" ->
            {"PST", "EST", "CST", "MST", "UTC"}
      [] OTHER -> {}

\* _get_fallback_generator: the keyword groups in the order of the elif
\* chain, each with the Faker method its generator calls
FallbackGroups ==
    <<[keys |-> {"name", "full_name", "customer_name"}, gen |-> "name"],
      [keys |-> {"first", "fname", "given"}, gen |-> "first_name"],
      [keys |-> {"last", "lname", "surname", "family"}, gen |-> "last_name"],
      [keys |-> {"email", "mail"}, gen |-> "email"],
      [keys |-> {"phone", "tel", "mobile"}, gen |-> "phone_number"],
      [keys |-> {"date", "birth", "created", "updated"}, gen |-> "date_between"],
      [keys |-> {"address", "street"}, gen |-> "address"],
      [keys |-> {"city"}, gen |-> "city"],
      [keys |-> {"state", "province"}, gen |-> "state"],
      [keys |-> {"country", "nation"}, gen |-> "country"],
      [keys |-> {"zip", "postal"}, gen |-> "postcode"],
      [keys |-> {"id", "number", "num", "count"}, gen |-> "random_int"],
      [keys |-> {"price", "cost", "amount", "salary"}, gen |-> "pyfloat"],
      [keys |-> {"age", "year"}, gen |-> "random_int"],
      [keys |-> {"description", "comment", "note"}, gen |-> "text"],
      [keys |-> {"title", "subject"}, gen |-> "sentence"],
      [keys |-> {"company", "employer", "organization"}, gen |-> "company"],
      [keys |-> {"job", "position", "role"}, gen |-> "job"],
      [keys |-> {"active", "enabled", "valid", "is_"}, gen |-> "boolean"]>>

\* the method names of the field specifications; "None" is str(None)
MethodNames ==
    {"email", "word", "department", "currency", "timezone", "md5", "format",
     "random", "status", "healthcare", "Healthcare", "finance", "education",
     "foo_bar_123", "", "None"}

\* the parameters of a field specification: none ({}), a dictionary the
\* method accepts, a dictionary the method rejects with TypeError
Parameters == {"none", "accepted", "rejected"}

\* the field names
FieldNames ==
    {"email", "Email", "blood_type", "department", "order_status",
     "customer_name", "is_active", "x1", "transaction_amount",
     "transaction_type", "grade", "is_valid", "first_name", "email_name"}

\* the field specifications: a dictionary with or without faker_method,
\* or a value that is no dictionary, by its str()
FieldConfigs ==
    [isdict : {TRUE}, method : MethodNames \cup {"absent"}, parameters : Parameters]
    \cup [isdict : {FALSE}, method : MethodNames, parameters : {"none"}]

\* what resolution returns: whether it is callable, the arguments it
\* requires, and what a call of it does: body "mapped", the entry of
\* faker_methods; "call_with_parameters", that entry under
\* _call_with_parameters; "attr", the attribute of the Faker instance;
\* "apply", that attribute called with the parameters; "choice",
\* random.choice among the values of category of in domain; "fallback",
\* the Faker method of of a keyword group
Generator(callable, required, body, of, parameters, domain) ==
    [callable |-> callable, required |-> required, body |-> body, of |-> of,
     parameters |-> parameters, domain |-> domain]

\* None
NoGenerator == Generator(FALSE, 0, "None", "none", "none", "none")

\* lambda vals=values: random.choice(vals)
Choice(d, c) == Generator(TRUE, 0, "choice", c, "none", d)

\* _get_domain_generator line 268-271: the test of a category against the
\* field name, within the domain the hint names
MatchesInDomain(category, field_lower) ==
    \/ Contains(field_lower, Spell(category))
    \/ \E i \in DOMAIN Split(Spell(category)) : Contains(field_lower, Split(Spell(category))[i])
    \/ Contains(Spell(category), field_lower)

\* _get_domain_generator lines 279-282: the test across all domains
MatchesAnywhere(category, field_lower) ==
    \/ Contains(field_lower, Spell(category))
    \/ \E i \in DOMAIN Split(Spell(category)) : Contains(field_lower, Split(Spell(category))[i])
    \/ field_lower = Spell(category)

\* a variant of _get_domain_generator without the stage of lines 263-272:
\* the hint is taken for a category only, then every domain is searched
get_domain_generator_unhinted(field_name, domain_hint) ==
    LET hint == Lower(Spell(domain_hint))
        field_lower == Lower(Spell(field_name))
        HasHint(d) == \E i \in DOMAIN Categories(d) : Spell(Categories(d)[i]) = hint
        IsCategory(c) == Spell(c) = hint
        Anywhere(c) == MatchesAnywhere(c, field_lower)
        HasMatch(d) == First(Categories(d), Anywhere) # 0
        d1 == First(Domains, HasHint)
        d3 == First(Domains, HasMatch)
    IN  IF d1 # 0
        THEN Choice(Domains[d1], Categories(Domains[d1])[First(Categories(Domains[d1]), IsCategory)])
        ELSE IF d3 # 0
        THEN Choice(Domains[d3], Categories(Domains[d3])[First(Categories(Domains[d3]), Anywhere)])
        ELSE NoGenerator

\* _get_domain_generator: a choice among the values of a category, or None
get_domain_generator(field_name, domain_hint) ==
    LET hint == Lower(Spell(domain_hint))
        field_lower == Lower(Spell(field_name))
        HasHint(d) == \E i \in DOMAIN Categories(d) : Spell(Categories(d)[i]) = hint
        IsHint(d) == Spell(d) = hint
        IsCategory(c) == Spell(c) = hint
        InDomain(c) == MatchesInDomain(c, field_lower)
        Anywhere(c) == MatchesAnywhere(c, field_lower)
        HasMatch(d) == First(Categories(d), Anywhere) # 0
        d1 == First(Domains, HasHint)
        d2 == First(Domains, IsHint)
        c2 == IF d2 = 0 THEN 0 ELSE First(Categories(Domains[d2]), InDomain)
        d3 == First(Domains, HasMatch)
    IN  IF d1 # 0
        THEN Choice(Domains[d1], Categories(Domains[d1])[First(Categories(Domains[d1]), IsCategory)])
        ELSE IF c2 # 0
        THEN Choice(Domains[d2], Categories(Domains[d2])[c2])
        ELSE IF d3 # 0
        THEN Choice(Domains[d3], Categories(Domains[d3])[First(Categories(Domains[d3]), Anywhere)])
        ELSE NoGenerator

\* _get_fallback_generator: by the first keyword group found in the field
\* name, faker.word otherwise
get_fallback_generator(field_name) ==
    LET field_lower == Lower(Spell(field_name))
        Found(g) == \E k \in g.keys : Contains(field_lower, Spell(k))
        i == First(FallbackGroups, Found)
    IN  Generator(TRUE, 0, "fallback", IF i = 0 THEN "word" ELSE FallbackGroups[i].gen,
                  "none", "none")

\* a variant of _get_field_generator that asks the domain values first
get_field_generator_pool_first(field_name, faker_method, parameters) ==
    LET g == get_domain_generator(field_name, faker_method)
    IN  IF g.callable THEN g
        ELSE IF faker_method \in faker_methods
        THEN IF parameters # "none"
             THEN Generator(TRUE, 0, "call_with_parameters", faker_method, parameters, "none")
             ELSE Generator(TRUE, 0, "mapped", faker_method, "none", "none")
        ELSE IF faker_method \in DOMAIN FakerAttrs
        THEN IF parameters # "none"
             THEN Generator(TRUE, 0, "apply", faker_method, parameters, "none")
             ELSE Generator(FakerAttrs[faker_method] # "value",
                            IF FakerAttrs[faker_method] = "method1" THEN 1 ELSE 0,
                            "attr", faker_method, "none", "none")
        ELSE get_fallback_generator(field_name)

\* _get_field_generator: the mapped method, the attribute of the Faker
\* instance of that name, a domain choice or the fallback
get_field_generator(field_name, faker_method, parameters) ==
    IF faker_method \in faker_methods
    THEN IF parameters # "none"
         THEN Generator(TRUE, 0, "call_with_parameters", faker_method, parameters, "none")
         ELSE Generator(TRUE, 0, "mapped", faker_method, "none", "none")
    ELSE IF faker_method \in DOMAIN FakerAttrs
    THEN IF parameters # "none"
         THEN Generator(TRUE, 0, "apply", faker_method, parameters, "none")
         ELSE Generator(FakerAttrs[faker_method] # "value",
                        IF FakerAttrs[faker_method] = "method1" THEN 1 ELSE 0,
                        "attr", faker_method, "none", "none")
    ELSE LET g == get_domain_generator(field_name, faker_method)
         IN  IF g.callable THEN g ELSE get_fallback_generator(field_name)

\* map_schema_to_faker, for one field of the schema
map_schema_to_faker(field_name, field_config) ==
    IF field_config.isdict
    THEN get_field_generator(field_name,
                             IF field_config.method = "absent" THEN "word" ELSE field_config.method,
                             field_config.parameters)
    ELSE get_field_generator(field_name, field_config.method, "none")

\* the entries of faker_methods that are lambdas without arguments; the
\* others are bound methods of the Faker instance
Lambdas == {"random_int", "department", "currency"}

\* method(**parameters) returns: the parameters are ones the method takes,
\* and the method takes any
Applies(of, parameters) == parameters = "accepted" /\ of \notin Lambdas

\* a variant of _call_with_parameters without its try/except: a failure
\* of method(**parameters) leaves the generator
call_unguarded(g) ==
    IF ~g.callable \/ g.required > 0 THEN "TypeError"
    ELSE IF g.body = "apply"
    THEN IF FakerAttrs[g.of] = "value" \/ g.parameters = "rejected" THEN "TypeError" ELSE "value"
    ELSE IF g.body = "call_with_parameters"
    THEN IF Applies(g.of, g.parameters) THEN "value" ELSE "TypeError"
    ELSE "value"

\* generator(): "value", or the exception of the call.  Under
\* _call_with_parameters (lines 240-243) a TypeError or ValueError of
\* method(**parameters) is caught and method() called
call(g) ==
    IF ~g.callable \/ g.required > 0 THEN "TypeError"
    ELSE IF g.body = "apply"
    THEN IF FakerAttrs[g.of] = "value" \/ g.parameters = "rejected" THEN "TypeError" ELSE "value"
    ELSE IF g.body = "call_with_parameters"
    THEN IF Applies(g.of, g.parameters) THEN "value" ELSE "value"
    ELSE "value"

\* how the value of a call came about: "applied", from the method called
\* with the parameters; "degraded", from method() after method(**parameters)
\* failed; "plain", from a call without parameters
how(g) ==
    IF call(g) # "value" THEN "none"
    ELSE IF g.body = "apply" THEN "applied"
    ELSE IF g.body = "call_with_parameters"
    THEN IF Applies(g.of, g.parameters) THEN "applied" ELSE "degraded"
    ELSE "plain"

\* no field
NoField ==
    [phase |-> "none", name |-> "", config |-> [isdict |-> FALSE, method |-> "", parameters |-> "none"],
     gen |-> NoGenerator, out |-> "none", how |-> "none"]

----------------------------------------------------------------------------
(* Row synthesis: DataGenerator.generate_data *)

\* generate_data line 374: row_count < 1
MinRowCount == 1

\* generate_data line 374: row_count > 10000
MaxRowCount == 10000

\* the largest row count for which rows are produced here
MaxRowsTried == 2

\* the row counts requested
RowCounts == (-1..MaxRowsTried) \cup {MaxRowCount + 1}

\* settings.MIN_ROWS and settings.MAX_ROWS: the defaults, or a ceiling of 1
\* set by the environment
RowSettings == [MIN_ROWS : {1}, MAX_ROWS : {1, MaxRowCount}]

\* a field of fields_schema: its name and its specification
Field(name, isdict, method, parameters) ==
    [name |-> name, config |-> [isdict |-> isdict, method |-> method, parameters |-> parameters]]

\* the schema of two pool fields under the hint "healthcare"
HealthcareSchema ==
    [fields |-> <<Field("blood_type", TRUE, "healthcare", "none"),
                  Field("department", TRUE, "healthcare", "none")>>,
     domain |-> "healthcare"]

\* the schemas synthesized: fields_schema in the order of the dictionary,
\* and the domain
Schemas ==
    {HealthcareSchema,
     [fields |-> <<>>, domain |-> "general"],
     [fields |-> <<Field("email", TRUE, "absent", "none"), Field("x1", FALSE, "random", "none")>>,
      domain |-> "general"],
     [fields |-> <<Field("x1", TRUE, "md5", "rejected"), Field("is_active", FALSE, "foo_bar_123", "none")>>,
      domain |-> "unknown"],
     [fields |-> <<Field("customer_name", TRUE, "format", "none")>>, domain |-> "ecommerce"]}

\* a cell of a row: a generated value, or the placeholder
\* f"sample_{field_name}_{row_idx}"
Cell(kind, v, f, i) == [kind |-> kind, v |-> v, f |-> f, i |-> i]

Placeholder(f, i) == Cell("sample", "sample", f, i)

\* the values a generator can return: the values of its pool, or a value
\* of the shape of its Faker method (dates and decimals converted for
\* JSON on lines 397-403)
Values(g) == IF g.body = "choice" THEN PoolValues(g.domain, g.of) ELSE {g.of}

\* what generator() can do on line 395: return one of its values, or raise
\* (random.choice over a pool does not)
Outcomes(g) ==
    IF call(g) # "value" THEN {"raise"}
    ELSE IF g.body = "choice" THEN Values(g)
    ELSE Values(g) \cup {"raise"}

\* the names of the fields in the order of the schema
NamesOf(fields) == [j \in DOMAIN fields |-> fields[j].name]

\* the index of the field called name
IndexOf(fields, name) == CHOOSE j \in DOMAIN fields : fields[j].name = name

\* a variant of lines 392-407 that gives up the whole row when one
\* generator raises
produce_row_abandoning(fields, outs, i) ==
    [name \in {fields[j].name : j \in DOMAIN fields} |->
        IF \E j \in DOMAIN fields : outs[j] = "raise"
        THEN Placeholder(name, i)
        ELSE Cell("value", outs[IndexOf(fields, name)], "", -1)]

\* generate_data lines 392-407: the row of index i, outs being what the
\* generators of the fields did
produce_row(fields, outs, i) ==
    [name \in {fields[j].name : j \in DOMAIN fields} |->
        IF outs[IndexOf(fields, name)] = "raise"
        THEN Placeholder(name, i)
        ELSE Cell("value", outs[IndexOf(fields, name)], "", -1)]

\* a variant of lines 411-419 that reports the row count requested less
\* the rows in which a generator raised
dataset_of_clean_rows(data, names, domain) ==
    [data |-> data,
     row_count |-> Cardinality({r \in DOMAIN data :
                        \A name \in DOMAIN data[r] : data[r][name].kind = "value"}),
     field_names |-> names, domain |-> domain]

\* generate_data lines 411-419: SyntheticDataset(...)
dataset(data, names, domain) ==
    [data |-> data, row_count |-> Len(data), field_names |-> names, domain |-> domain]

NoDataset == dataset(<<>>, <<>>, "none")

\* no call of generate_data
NoSyn ==
    [phase |-> "none", settings |-> [MIN_ROWS |-> 1, MAX_ROWS |-> MaxRowCount],
     schema |-> [fields |-> <<>>, domain |-> "none"], n |-> 0, gens |-> <<>>, i |-> 0,
     data |-> <<>>, used |-> 0, result |-> [kind |-> "none", dataset |-> NoDataset]]

----------------------------------------------------------------------------
(* Content keys: generate_cache_key over _normalize_description.  A      *)
(* description is the sequence of its characters; "dotless_i" is the      *)
(* letter U+0131, whose capital is the letter I.                          *)

\* length of the longest description tried
MaxLen == 3

\* the characters descriptions are made of
Letters == {"i", "I", "dotless_i"}

\* what \s of re and str.strip() take for white space
Whitespace == {" ", "\t"}

\* the class [,.!?;:] of the pattern
Marks == {",", ".", "!", "?", ";", ":"}

DescriptionChars == Letters \cup Whitespace \cup {","}

DescriptionTexts == UNION {[1..n -> DescriptionChars] : n \in 1..MaxLen}

\* str.upper(), character by character
UpperChar(c) == IF c \in {"i", "dotless_i"} THEN "I" ELSE c

\* str.lstrip()
RECURSIVE LeftStrip(_)
LeftStrip(s) == IF s # <<>> /\ s[1] \in Whitespace THEN LeftStrip(Tail(s)) ELSE s

\* str.rstrip()
RECURSIVE RightStrip(_)
RightStrip(s) ==
    IF s # <<>> /\ s[Len(s)] \in Whitespace THEN RightStrip(SubSeq(s, 1, Len(s) - 1)) ELSE s

\* normalized.strip()
StripWhitespace(s) == RightStrip(LeftStrip(s))

\* re.sub(r'\s+', ' ', normalized)
RECURSIVE CollapseWhitespace(_)
CollapseWhitespace(s) ==
    IF s = <<>> THEN <<>>
    ELSE IF s[1] \in Whitespace THEN <<" ">> \o CollapseWhitespace(LeftStrip(s))
    ELSE <<s[1]>> \o CollapseWhitespace(Tail(s))

\* re.sub(r'\s*([,.!?;:])\s*', r'\1 ', normalized): matches are taken from
\* the left, each with the white space on both sides of its mark
RECURSIVE SpaceMarks(_)
SpaceMarks(s) ==
    IF s = <<>> THEN <<>>
    ELSE LET rest == LeftStrip(s)
             k == Len(s) - Len(rest)
         IN  IF rest # <<>> /\ rest[1] \in Marks
             THEN <<rest[1], " ">> \o SpaceMarks(LeftStrip(Tail(rest)))
             ELSE IF k > 0 THEN SubSeq(s, 1, k) \o SpaceMarks(rest)
             ELSE <<s[1]>> \o SpaceMarks(Tail(s))

normalize_description(description) ==
    LET lowered == Lower(description)
        collapsed == StripWhitespace(CollapseWhitespace(lowered))
        spaced == SpaceMarks(collapsed)
    IN  StripWhitespace(CollapseWhitespace(spaced))

\* the bits SHA-256 is fed for one character (its encoding, told apart
\* from every other character's), as digits of the classes "0" and "a"
CharDigits(c) ==
    CASE c = "i" -> <<"0", "0", "a">>
      [] c = "I" -> <<"0", "a", "0">>
      [] c = "dotless_i" -> <<"0", "a", "a">>
      [] c = " " -> <<"a", "0", "0">>
      [] c = "\t" -> <<"a", "0", "a">>
      [] c = "," -> <<"a", "a", "0">>

RECURSIVE Digits(_)
Digits(text) == IF text = <<>> THEN <<>> ELSE CharDigits(text[1]) \o Digits(Tail(text))

\* hashlib.sha256(text).hexdigest(): HashLen hexadecimal digits, different
\* for different texts
hexdigest(text) ==
    LET d == Digits(text) IN d \o [i \in 1..(HashLen - Len(d)) |-> "0"]

ValueError == <<"ValueError">>

generate_cache_key(description) ==
    IF description = <<>> THEN ValueError
    ELSE hexdigest(normalize_description(description))

\* two descriptions and the keys generated for them; none before the first
NoTxt == [d1 |-> <<>>, d2 |-> <<>>, key1 |-> <<>>, key2 |-> <<>>, ev |-> "none"]

----------------------------------------------------------------------------
(* Spec: one client at a time *)

\* keys given to get: the well-formed ones and the malformed ones
GetKeyIds == KeyIds

\* keys given to put: the well-formed ones and a malformed one
PutKeyIds == GoodKeyIds \cup {102}

\* the conditions a call of put may meet: a fault in the write, with the
\* outcome of the restore where one can be attempted, or a refused read
PutCases ==
    {<<f, TRUE, {}>> : f \in Faults}
    \cup {<<f, FALSE, {}>> : f \in CopyFaults \cup WriteFaults}
    \cup {<<"none", TRUE, {"primary"}>>}

\* the record of a call: its inputs (key, payload v, fault met, whether the
\* restore worked, paths refused), whether the key was stored before it,
\* and its result (out, the schema concerned, the file or path that answered)
NoCall == [op |-> "none", key |-> 0, v |-> 0, fault |-> "none", rok |-> TRUE, den |-> {},
           had |-> FALSE, out |-> "none", schema |-> NoSchema, via |-> "none"]

Call(op, k, v, fault, rok, den, had, out, schema, via) ==
    [op |-> op, key |-> k, v |-> v, fault |-> fault, rok |-> rok, den |-> den,
     had |-> had, out |-> out, schema |-> schema, via |-> via]

concVars == <<pc, loc, lock, hist>>

\* the variables of field resolution, row synthesis and key generation
dataVars == <<fld, syn, txt>>

\* the state of the services around the cache
svcVars == <<gov, acq, dataVars>>

\* SchemaCache.__init__: ensure_file_exists(cache_file, default_cache)
Restart ==
    /\ primary' = IF Exists(primary) THEN primary ELSE DefaultCache
    /\ last' = [NoCall EXCEPT !.op = "init"]
    /\ UNCHANGED <<backup, concVars, svcVars>>

\* the refusals a call of get actually met
MetDenials(r, den) ==
    IF r.out = "ValueError" THEN {}
    ELSE IF r.via = "primary" THEN den \cap {"primary"}
    ELSE den \cap {"backup"}

\* get_cached_schema(description_hash), the paths in den being refused
Get(k, den) ==
    LET r == get_cached_schema(primary, backup, den, k)
    IN  /\ den = MetDenials(r, den)
        /\ last' = Call("get", k, 0, "none", TRUE, den, FALSE, r.out, r.schema, r.via)
        /\ UNCHANGED <<primary, backup, concVars, svcVars>>

\* the fault a call of put actually met: none when nothing was written,
\* and no copy fault when no copy was to be made
MetFault(o, fault) ==
    IF o.path = "none" THEN "none"
    ELSE IF o.path = "recreate" /\ fault \in CopyFaults THEN "none"
    ELSE fault

\* save_schema(description_hash, schema) under fault
Put(k, v, fault, rok, den) ==
    LET s == GeneratedSchema(k, v)
        o == save_schema(primary, backup, den, k, s, fault, rok)
    IN  /\ fault = MetFault(o, fault)
        /\ den = (IF o.out = "ValueError" \/ ~Exists(primary) THEN {} ELSE den \cap {"primary"})
        /\ primary' = o.primary
        /\ backup' = o.backup
        /\ last' = Call("put", k, v, fault, rok, den,
                         primary.kind = "object" /\ k \in DOMAIN SchemasOf(primary),
                         o.out, s, o.path)
        /\ UNCHANGED <<concVars, svcVars>>

\* is_cache_healthy(), access to the paths in den being refused
IsHealthy(den) ==
    /\ den = (IF Exists(primary) THEN den \cap {"primary"} ELSE {})
    /\ last' = Call("healthy", 0, 0, "none", TRUE, den, FALSE,
                     is_cache_healthy(primary, "primary" \in den), NoSchema, "primary")
    /\ UNCHANGED <<primary, backup, concVars, svcVars>>

\* get_cache_stats(), access to the paths in den being refused
Stats(den) ==
    /\ den = (IF Exists(primary) THEN den \cap {"primary"} ELSE {})
    /\ last' = Call("stats", 0, 0, "none", TRUE, den, FALSE,
                     get_cache_stats(primary, backup, "primary" \in den).out, NoSchema, "primary")
    /\ UNCHANGED <<primary, backup, concVars, svcVars>>

\* clear_cache() under fault; a fault is met only when the file is written
Clear(fault) ==
    LET o == clear_cache(primary, backup, fault)
    IN  /\ fault = (IF o.path = "none" THEN "none" ELSE fault)
        /\ primary' = o.primary
        /\ backup' = o.backup
        /\ last' = Call("clear", 0, 0, fault, TRUE, {},
                         primary.kind = "object" /\ DOMAIN SchemasOf(primary) # {},
                         o.out, NoSchema, o.path)
        /\ UNCHANGED <<concVars, svcVars>>

\* the primary file is damaged or deleted
CorruptPrimary ==
    /\ \E c \in CorruptContents : primary' = c
    /\ last' = [NoCall EXCEPT !.op = "corrupt", !.via = "primary"]
    /\ UNCHANGED <<backup, concVars, svcVars>>

\* the backup file is damaged or deleted
CorruptBackup ==
    /\ \E c \in CorruptBackups : backup' = c
    /\ last' = [NoCall EXCEPT !.op = "corrupt", !.via = "backup"]
    /\ UNCHANGED <<primary, concVars, svcVars>>

\* the processes that share the cache file path
Procs == 1..2

\* the locals of a handler: the operation, its key and payload, the data
\* it is about to write, and the calls the process has made so far
IdleLocals == [op |-> "none", key |-> 0, v |-> 0, data |-> Text("absent"), n |-> 0]

\* nothing observed yet: no torn read, no put returned
NoHist == [tornRead |-> FALSE, nput |-> 0, done |-> {}]

\* the cache after SchemaCache.__init__, the governor after __init__
InitCache ==
    /\ primary = DefaultCache
    /\ backup = Text("absent")
    /\ last = NoCall
    /\ pc = [p \in Procs |-> "idle"]
    /\ loc = [p \in Procs |-> IdleLocals]
    /\ lock = 0
    /\ hist = NoHist

InitCacheAndGovernor ==
    /\ InitCache
    /\ gov = NewGovernor(0)

Init ==
    /\ InitCacheAndGovernor
    /\ acq = NewAcq(TRUE)
    /\ fld = NoField
    /\ syn = NoSyn
    /\ txt = NoTxt

Next ==
    \/ Restart
    \/ \E k \in GetKeyIds, den \in SUBSET Paths : Get(k, den)
    \/ \E k \in PutKeyIds, v \in SchemaIds, c \in PutCases : Put(k, v, c[1], c[2], c[3])
    \/ \E den \in SUBSET Paths : IsHealthy(den)
    \/ \E den \in SUBSET Paths : Stats(den)
    \/ \E f \in Faults \ CopyFaults : Clear(f)
    \/ CorruptPrimary
    \/ CorruptBackup

Spec == Init /\ [][Next]_vars

----------------------------------------------------------------------------
(* ConcSpec: processes sharing the cache file path.  A locked read is the  *)
(* steps flock(LOCK_EX) and json.load with the release; a put is a locked  *)
(* read, then write_json_file: shutil.copy2 to the backup, open(path, 'w') *)
(* which truncates the file, flock(LOCK_EX), and json.dump with the        *)
(* release.  The backup is read and copied in one step.                    *)

\* calls each process makes
MaxOps == 2

\* get_cached_schema(k) is called by process p
StartGet(p, k) ==
    /\ pc[p] = "idle" /\ loc[p].n < MaxOps
    /\ pc' = [pc EXCEPT ![p] = "r_lock"]
    /\ loc' = [loc EXCEPT ![p] = [IdleLocals EXCEPT !.op = "get", !.key = k, !.n = loc[p].n + 1]]
    /\ UNCHANGED <<primary, backup, last, svcVars, lock, hist>>

\* save_schema(k, schema v) is called by process p
StartPut(p, k, v) ==
    /\ pc[p] = "idle" /\ loc[p].n < MaxOps
    /\ pc' = [pc EXCEPT ![p] = "r_lock"]
    /\ loc' = [loc EXCEPT ![p] = [IdleLocals EXCEPT !.op = "put", !.key = k, !.v = v,
                                                     !.n = loc[p].n + 1]]
    /\ UNCHANGED <<primary, backup, last, svcVars, lock, hist>>

\* file_lock(path, 'r'): fcntl.flock(LOCK_EX) blocks until the lock is free
RLock(p) ==
    /\ pc[p] = "r_lock" /\ lock = 0
    /\ lock' = p
    /\ pc' = [pc EXCEPT ![p] = "r_read"]
    /\ UNCHANGED <<primary, backup, last, svcVars, loc, hist>>

\* what json.dump of data leaves in a file opened with 'w' before the
\* file got its present content f: the text is written from offset 0 and
\* a longer text already there keeps its tail
Overlay(f, data) == IF Size(data) >= Size(f) THEN data ELSE Text("garbage")

\* read_json_file: json.load under the lock, then the release.  A get
\* returns here; a put goes on to write the updated cache, or the
\* recreated one when the read raised JSONDecodeError
RRead(p) ==
    LET r == read_json_file(primary, FALSE)
        s == GeneratedSchema(loc[p].key, loc[p].v)
    IN  /\ pc[p] = "r_read" /\ lock = p
        /\ lock' = 0
        /\ hist' = [hist EXCEPT !.tornRead = @ \/ r.err = "JSONDecodeError"]
        /\ IF loc[p].op = "get"
           THEN /\ pc' = [pc EXCEPT ![p] = "idle"]
                /\ loc' = loc
           ELSE IF r.err = "JSONDecodeError"
           THEN /\ pc' = [pc EXCEPT ![p] = "w_open"]
                /\ loc' = [loc EXCEPT ![p].data = RecreatedCache(loc[p].key, s)]
           ELSE /\ pc' = [pc EXCEPT ![p] = "w_copy"]
                /\ loc' = [loc EXCEPT ![p].data = UpdatedCache(r.data, loc[p].key, s)]
        /\ UNCHANGED <<primary, backup, last, svcVars>>

\* write_json_file: shutil.copy2(file_path, backup_path), no lock taken
WCopy(p) ==
    /\ pc[p] = "w_copy"
    /\ backup' = primary
    /\ pc' = [pc EXCEPT ![p] = "w_open"]
    /\ UNCHANGED <<primary, last, svcVars, loc, lock, hist>>

\* file_lock(path, 'w'): open(file_path, 'w') truncates the file, and
\* does so before the lock is asked for
WOpen(p) ==
    /\ pc[p] = "w_open"
    /\ primary' = Text("empty")
    /\ pc' = [pc EXCEPT ![p] = "w_lock"]
    /\ UNCHANGED <<backup, last, svcVars, loc, lock, hist>>

\* file_lock(path, 'w'): fcntl.flock(LOCK_EX)
WLock(p) ==
    /\ pc[p] = "w_lock" /\ lock = 0
    /\ lock' = p
    /\ pc' = [pc EXCEPT ![p] = "w_write"]
    /\ UNCHANGED <<primary, backup, last, svcVars, loc, hist>>

\* json.dump, flush, fsync under the lock, then the release: put returns True
WWrite(p) ==
    /\ pc[p] = "w_write" /\ lock = p
    /\ primary' = Overlay(primary, loc[p].data)
    /\ lock' = 0
    /\ pc' = [pc EXCEPT ![p] = "idle"]
    /\ hist' = [hist EXCEPT !.nput = @ + 1, !.done = @ \cup {loc[p].key}]
    /\ UNCHANGED <<backup, last, svcVars, loc>>

ConcNext ==
    \E p \in Procs :
        \/ \E k \in GoodKeyIds : StartGet(p, k)
        \/ \E k \in GoodKeyIds, v \in SchemaIds : StartPut(p, k, v)
        \/ RLock(p)
        \/ RRead(p)
        \/ WCopy(p)
        \/ WOpen(p)
        \/ WLock(p)
        \/ WWrite(p)

ConcSpec == Init /\ [][ConcNext]_vars

----------------------------------------------------------------------------
(* GovSpec: one governor, one request at a time: an admission check, then  *)
(* the provider call, during which time passes, then the record of the     *)
(* request when the call succeeded.                                        *)

cacheVars == <<primary, backup, last, concVars>>

\* days the clock may pass
MaxDays == 1

\* the step of the clock
TickLen == WindowLen \div 3

\* the clock stops this long after midnight
MaxClock == 2 * WindowLen

\* generate_schema line 273: self._check_rate_limits()
CheckAdmission ==
    LET c == check_rate_limits(gov)
        fresh == Pruned(gov.times, gov.now - WindowLen) = <<>>
        seen == IF fresh THEN 0 ELSE gov.streak
    IN  /\ ~gov.busy
        /\ gov' = [c.g EXCEPT !.busy = (c.decision = "allow"),
                              !.ev = "check", !.d = c.decision, !.was = gov.d,
                              !.seen = seen,
                              !.start = IF fresh THEN gov.now ELSE @,
                              !.streak = IF c.decision = "allow" THEN seen ELSE -1]
        /\ UNCHANGED <<cacheVars, acq, dataVars>>

\* generate_schema line 309: self._record_request() after the provider
\* answered
RecordSuccess ==
    /\ gov.busy
    /\ gov' = [record_request(gov) EXCEPT !.busy = FALSE, !.ev = "record",
                                          !.streak = IF @ >= 0 THEN @ + 1 ELSE @]
    /\ UNCHANGED <<cacheVars, acq, dataVars>>

\* generate_schema lines 296-306: the provider call failed, nothing is
\* recorded
ProviderFailure ==
    /\ gov.busy
    /\ gov' = [gov EXCEPT !.busy = FALSE, !.ev = "fail", !.streak = -1]
    /\ UNCHANGED <<cacheVars, acq, dataVars>>

\* time passes
Tick ==
    /\ (gov.now % DayLen) + TickLen <= MaxClock
    /\ gov' = [gov EXCEPT !.now = @ + TickLen, !.ev = "tick"]
    /\ UNCHANGED <<cacheVars, acq, dataVars>>

\* time passes until midnight
NextDay ==
    /\ Date(gov.now) < MaxDays
    /\ gov' = [gov EXCEPT !.now = (Date(@) + 1) * DayLen, !.ev = "tick"]
    /\ UNCHANGED <<cacheVars, acq, dataVars>>

GovNext ==
    \/ CheckAdmission
    \/ RecordSuccess
    \/ ProviderFailure
    \/ Tick
    \/ NextDay

GovSpec == Init /\ [][GovNext]_vars

----------------------------------------------------------------------------
(* AcqSpec: generate_schema requests of one generator, interleaved at *)
(* their awaits: the provider call and the backoff sleep               *)

\* requests begun in one run
MaxReqs == 2

\* the faults a save meets here: none, a failed backup copy, a failed write
StoreFaults == {"none", "copy_partial", "write_partial"}

\* the cache files a generator may find: deleted, no JSON, no object, an
\* object without keys, an entry with an unreadable date
DamagedCaches ==
    {Text("absent"), Text("garbage"), Text("nonobject"), Object({}, <<>>, {}, 0),
     Object(TopKeys, [x \in {1} |-> [SchemaEntry(GeneratedSchema(1, 1)) EXCEPT !.created_at = BadDate]],
            MetaKeys, 1)}

\* the provider calls issued, counted up to one past the ceiling
Counted(calls) == IF calls > PerMinute THEN calls ELSE calls + 1

\* a governor that has recorded requests just now, one short of the
\* per-minute ceiling
UsedGovernor ==
    [NewGovernor(0) EXCEPT !.times = [i \in 1..(PerMinute - 1) |-> 0], !.count = PerMinute - 1]

\* __init__ lines 37-45: the cache was constructed, or construction
\* failed and self.cache is None; the governor is new or has been in use
AcqInit ==
    /\ InitCache
    /\ gov \in {NewGovernor(0), UsedGovernor}
    /\ acq \in {NewAcq(c) : c \in BOOLEAN}
    /\ fld = NoField
    /\ syn = NoSyn
    /\ txt = NoTxt

\* generate_schema lines 250-273 and the first pass of the loop up to the
\* await of line 282: validation, key, cache lookup, admission check
Begin(r, desc, den) ==
    LET tooShort == desc.len < MinDescriptionLength
        tooLong == desc.len > MaxDescriptionLength
        k == generate_hash(desc)
        l == cache_lookup(acq.cache, primary, backup, den, k)
        c == check_rate_limits(gov)
        q == [NewRequest EXCEPT !.key = k, !.got = l.out]
    IN  /\ acq.req[r].pc = "idle"
        /\ \A x \in Reqs : x < r => acq.req[x].pc # "idle"
        /\ acq.n < MaxReqs
        /\ IF tooShort \/ tooLong
           THEN /\ den = {}
                /\ desc.id = 1
                /\ acq' = [acq EXCEPT !.n = @ + 1,
                                       !.done = Completed(NewRequest, "none", NoResponse,
                                                    Failure("ValidationError",
                                                        <<IF tooShort THEN "Description must be at least"
                                                          ELSE "Description must not exceed">>))]
                /\ UNCHANGED gov
           ELSE IF l.out = "found"
           THEN /\ den = {}
                /\ acq' = [acq EXCEPT !.n = @ + 1,
                                       !.done = Completed(q, "none", NoResponse,
                                                          Success(l.schema, "cache"))]
                /\ UNCHANGED gov
           ELSE /\ den = (IF ~acq.cache THEN {}
                          ELSE IF Exists(primary) THEN den \cap {"primary"}
                          ELSE den \cap {"backup"})
                /\ gov' = c.g
                /\ IF c.decision = "allow"
                   THEN acq' = [acq EXCEPT !.n = @ + 1, !.calls = Counted(@),
                                           !.req[r] = [q EXCEPT !.pc = "calling"]]
                   ELSE acq' = [acq EXCEPT !.n = @ + 1,
                                           !.done = Completed(q, "none", NoResponse,
                                                        Failure("RateLimitError",
                                                            <<IF c.decision = "daily"
                                                              THEN "Daily rate limit exceeded"
                                                              ELSE "Per-minute rate limit exceeded">>))]
        /\ UNCHANGED <<cacheVars, dataVars>>

\* lines 296-306: client.messages.create raised e
CallFails(r, e) ==
    LET q == acq.req[r]
        x == on_call_exception(q.attempt, e)
    IN  /\ q.pc = "calling"
        /\ acq' = IF x.next = "sleep"
                  THEN [acq EXCEPT !.req[r] = [q EXCEPT !.pc = "sleeping",
                                                        !.slept = Append(@, x.delay)]]
                  ELSE [acq EXCEPT !.req[r] = NewRequest,
                                   !.done = Completed(q, "none", NoResponse, x.res)]
        /\ UNCHANGED <<cacheVars, gov, dataVars>>

\* line 298 returns: asyncio.sleep(2 ** attempt) is over, the loop calls
\* the provider again
Wake(r) ==
    LET q == acq.req[r]
    IN  /\ q.pc = "sleeping"
        /\ acq' = [acq EXCEPT !.calls = Counted(@),
                               !.req[r] = [q EXCEPT !.pc = "calling", !.attempt = @ + 1]]
        /\ UNCHANGED <<cacheVars, gov, dataVars>>

\* lines 309-346: client.messages.create returned resp; the request is
\* recorded, the response handled, the schema saved and returned
CallReturns(r, resp, den, fault, rok) ==
    LET q == acq.req[r]
        h == handle_response(resp, q.key)
        st == cache_store(acq.cache, primary, backup, den, q.key, h.schema, fault, rok)
    IN  /\ q.pc = "calling"
        /\ gov' = record_request(gov)
        /\ IF h.ok
           THEN /\ den = (IF acq.cache /\ Exists(primary) THEN den ELSE {})
                /\ fault = (IF st.out \in {"True", "False", "CacheError"} /\ den = {}
                            THEN fault ELSE "none")
                /\ rok \/ (fault # "none" /\ Exists(st.backup))
                /\ primary' = st.primary
                /\ backup' = st.backup
                /\ acq' = [acq EXCEPT !.req[r] = NewRequest,
                                       !.done = Completed(q, st.out, resp,
                                                    IF st.raised = "none" THEN h
                                                    ELSE Failure("SchemaGenerationError",
                                                             <<"Schema generation failed: ", st.raised>>))]
           ELSE /\ den = {} /\ fault = "none" /\ rok
                /\ acq' = [acq EXCEPT !.req[r] = NewRequest,
                                       !.done = Completed(q, "none", resp, h)]
                /\ UNCHANGED <<primary, backup>>
        /\ UNCHANGED <<last, concVars, dataVars>>

\* the cache file was damaged or deleted before the first request
DamageCache ==
    /\ acq.cache
    /\ acq.n = 0
    /\ primary = DefaultCache
    /\ \E c \in DamagedCaches : primary' = c
    /\ UNCHANGED <<backup, last, concVars, svcVars>>

\* the window of a minute passes, once, between two requests and with
\* the window full
MinutePasses ==
    /\ gov.now = 0
    /\ Len(gov.times) >= PerMinute
    /\ \A r \in Reqs : acq.req[r].pc = "idle"
    /\ gov' = [gov EXCEPT !.now = @ + WindowLen]
    /\ UNCHANGED <<cacheVars, acq, dataVars>>

AcqNext ==
    \/ MinutePasses
    \/ \E r \in Reqs, desc \in Descriptions, den \in SUBSET Paths : Begin(r, desc, den)
    \/ \E r \in Reqs, e \in ProviderExceptions : CallFails(r, e)
    \/ \E r \in Reqs : Wake(r)
    \/ \E r \in Reqs, resp \in Responses, den \in SUBSET {"primary"}, fault \in StoreFaults,
          rok \in BOOLEAN : CallReturns(r, resp, den, fault, rok)
    \/ DamageCache

AcqSpec == AcqInit /\ [][AcqNext]_vars

----------------------------------------------------------------------------
(* Claims about the cache, one client at a time (Spec) *)

\* what get(k) answers in the current state with no path refused
Answer(k) == get_cached_schema(primary, backup, {}, k)

\* the same for the state a step leads to
AnswerNext(k) == get_cached_schema(primary', backup', {}, k)

\* a string of exactly 64 characters, each a hexadecimal digit
IsHex64(s) == Len(s) = HashLen /\ \A i \in 1..Len(s) : IsHexDigit(s[i])

\* a file that is healthy and whose entries all load as schemas
Intact(f) ==
    /\ is_cache_healthy(f, FALSE) = "True"
    /\ \A k \in DOMAIN f.schemas : BuildSchema(f.schemas[k]).err = "none"

\* missing, unparseable, or parseable but no well-formed cache container
StructurallyInvalid(f) ==
    \/ f.kind # "object"
    \/ ~({"version", "schemas", "metadata"} \subseteq f.has)

\* C2 (as claimed): once put(k, s) has returned success, get(k) returns s
\* after whatever happens next, unless that is another put on k: here for
\* the step that follows the successful put
C2_NeverLost ==
    [][(last.op = "put" /\ last.out = "True" /\ ~(last'.op = "put" /\ last'.key = last.key))
       => (AnswerNext(last.key).out = "found" /\ AnswerNext(last.key).schema = last.schema)]_vars

C6_BackupRecovery ==
    (/\ last.op = "get" /\ last.key \in GoodKeyIds /\ last.den = {}
     /\ StructurallyInvalid(primary)
     /\ Intact(backup) /\ last.key \in DOMAIN backup.schemas)
    => (last.out = "found" /\ last.schema = BuildSchema(backup.schemas[last.key]).schema)

\* a put that took the backup copy and whose destructive write then failed
\* or was interrupted
WriteFailed(c) == c.op = "put" /\ c.via = "update" /\ c.fault \in WriteFaults \cup CrashFaults

Unreadable(f) == read_json_file(f, FALSE).err \in {"FileNotFoundError", "JSONDecodeError"}

\* C8: a put(k, s) that finds the primary unreadable leaves the backup as it
\* is and, when no I/O fault hits the rewrite, returns success with the
\* primary holding exactly the entry k -> s and the count 1
C8_Recreate ==
    [][(last'.op = "put" /\ last'.key \in ValidKeyIds /\ last'.den = {} /\ Unreadable(primary))
       => /\ last'.via = "recreate"
          /\ backup' = backup
          /\ (last'.fault = "none") => last'.out = "True"
          /\ (last'.out = "True")
             => /\ is_cache_healthy(primary', FALSE) = "True"
                /\ DOMAIN primary'.schemas = {last'.key}
                /\ primary'.total = 1
                /\ AnswerNext(last'.key) = Result("found", last'.schema, "primary")]_vars

\* C8, witness: a put recreated the primary while a backup with other
\* entries existed
C8_Witness ==
    /\ last.op = "put" /\ last.via = "recreate" /\ last.out = "True"
    /\ DOMAIN primary.schemas = {last.key}
    /\ backup.kind = "object" /\ DOMAIN backup.schemas # {} /\ last.key \notin DOMAIN backup.schemas

\* C9 (as claimed): for a well-formed key get raises only when access to
\* the storage is refused
C9_OnlyAccessDenied ==
    (last.op = "get" /\ last.key \in GoodKeyIds /\ last.out \notin {"found", "absent"})
    => last.den # {}

\* C10 (as claimed): get and put raise the usage error exactly for the keys
\* that are not 64 hexadecimal digits
C10_KeyFormat ==
    (last.op \in {"get", "put"})
    => ((last.out = "ValueError") <=> ~IsHex64(KeyText(last.key)))

----------------------------------------------------------------------------
(* Claims about processes sharing the cache file (ConcSpec) *)

\* no process is inside a handler
Quiescent == \A p \in Procs : pc[p] = "idle"

\* the lock is held by a process that is writing
WriterHoldsLock == \E p \in Procs : lock = p /\ pc[p] = "w_write"

\* C1 (as claimed): no read performed under the lock sees the file empty,
\* truncated or partially written
C1_LockedReadsComplete == ~hist.tornRead

\* C3 (as claimed): from the empty healthy cache, once N puts on N distinct
\* keys have returned, all N keys are retrievable, the statistics count N
\* schemas and the cache is healthy
C3_AllPutsCounted ==
    (Quiescent /\ hist.nput = Cardinality(hist.done))
    => /\ \A k \in hist.done : Answer(k).out = "found"
       /\ get_cache_stats(primary, backup, FALSE).total_schemas = hist.nput
       /\ is_cache_healthy(primary, FALSE) = "True"

\* C4 (as claimed): whenever no writer holds the lock the primary file is
\* structurally consistent
C4_ConsistentWhenUnlocked == ~WriterHoldsLock => is_cache_healthy(primary, FALSE) = "True"

----------------------------------------------------------------------------
(* Claims about the self-check and the statistics (Spec) *)

\* the file parses, has version, schemas and metadata, its metadata has
\* total_schemas and last_updated, and the count is the number of entries
WellFormedContainer(f) ==
    /\ f.kind = "object"
    /\ {"version", "schemas", "metadata"} \subseteq f.has
    /\ MetaKeys \subseteq f.metaHas
    /\ f.total = Cardinality(DOMAIN SchemasOf(f))

\* C11 (as claimed): isHealthy() returns true exactly when the primary is
\* readable and a well-formed container with the right count, and false,
\* without raising, in every other state of the file
C11_HealthyIff ==
    (last.op = "healthy")
    => /\ last.out \in {"True", "False"}
       /\ (last.out = "True") <=> (last.den = {} /\ WellFormedContainer(primary))

\* C12 (as claimed): stats() never raises; when the primary is missing,
\* unparseable or unreadable its result has count 0, no time stamp, sizes 0
\* and the error flag
C12_StatsNeverFails ==
    (last.op = "stats")
    => LET r == get_cache_stats(primary, backup, "primary" \in last.den)
       IN  /\ last.out = "ok"
           /\ (last.den # {} \/ Unreadable(primary))
              => /\ r.total_schemas = 0 /\ ~r.last_updated /\ r.error
                 /\ r.cache_file_size = 0 /\ r.backup_file_size = 0

----------------------------------------------------------------------------
(* Claims about the request-rate governor (GovSpec) *)

\* the recorded requests that the window of the last minute holds
InWindow == Len(Pruned(gov.times, gov.now - WindowLen))

\* C14: in a run of check+record cycles that began with an empty window
\* less than 60 seconds ago, with the daily ceiling not reached, a check
\* allows while fewer than PerMinute cycles came before it and denies with
\* the per-minute reason once PerMinute cycles came before it
C14_Burst ==
    (gov.ev = "check" /\ gov.seen >= 0 /\ gov.now - gov.start < WindowLen /\ gov.count < PerDay)
    => /\ gov.seen <= PerMinute
       /\ gov.d = (IF gov.seen < PerMinute THEN "allow" ELSE "minute")

\* C14, witness: the check after PerMinute cycles, some time after the
\* first of them, was denied with the per-minute reason
C14_Witness ==
    /\ gov.ev = "check" /\ gov.seen = PerMinute /\ gov.d = "minute"
    /\ gov.start < gov.now /\ gov.now - gov.start < WindowLen

\* C15: an admission check made on the date of the daily counter while
\* the counter has reached the daily ceiling denies with the daily reason
C15_DailyFirst ==
    [][(gov'.ev = "check" /\ gov.count >= PerDay /\ Date(gov.now) = gov.reset)
       => gov'.d = "daily"]_vars

\* C15, witness: a check denied with the daily reason while the window of
\* the last minute was full
C15_Witness ==
    /\ gov.ev = "check" /\ gov.d = "daily"
    /\ gov.count >= PerDay /\ InWindow >= PerMinute

----------------------------------------------------------------------------
(* FieldSpec: one field of a schema is resolved, its generator called *)

\* a field of schema.fields_schema
FieldInit ==
    /\ InitCacheAndGovernor
    /\ acq = NewAcq(TRUE)
    /\ fld \in {[NoField EXCEPT !.phase = "field", !.name = n, !.config = c] :
                    n \in FieldNames, c \in FieldConfigs}
    /\ syn = NoSyn
    /\ txt = NoTxt

\* generate_data line 377: field_generators = self.map_schema_to_faker(...)
Resolve ==
    /\ fld.phase = "field"
    /\ fld' = [fld EXCEPT !.phase = "resolved", !.gen = map_schema_to_faker(fld.name, fld.config)]
    /\ UNCHANGED <<cacheVars, gov, acq, syn, txt>>

\* the generator is called without arguments, as generate_data line 393
\* does
Invoke ==
    /\ fld.phase = "resolved"
    /\ fld' = [fld EXCEPT !.phase = "called", !.out = call(fld.gen), !.how = how(fld.gen)]
    /\ UNCHANGED <<cacheVars, gov, acq, syn, txt>>

FieldNext ==
    \/ Resolve
    \/ Invoke

FieldSpec == FieldInit /\ [][FieldNext]_vars

----------------------------------------------------------------------------
(* DataSpec: one call of generate_data(schema, row_count), row by row *)

\* a call of generate_data under some settings; the ceiling set by the
\* environment is tried with the schemas of at most one field
DataInit ==
    /\ InitCacheAndGovernor
    /\ acq = NewAcq(TRUE)
    /\ fld = NoField
    /\ txt = NoTxt
    /\ syn \in {[NoSyn EXCEPT !.phase = "request", !.settings = st, !.schema = sc, !.n = n] :
                    st \in RowSettings, sc \in Schemas, n \in RowCounts}
    /\ syn.settings.MAX_ROWS = MaxRowCount \/ Len(syn.schema.fields) <= 1

\* generate_data lines 373-383: the row count validated, the fields
\* resolved
StartGenerate ==
    /\ syn.phase = "request"
    /\ syn' = IF syn.n < MinRowCount \/ syn.n > MaxRowCount
              THEN [syn EXCEPT !.phase = "failed",
                               !.result = [kind |-> "ValidationError", dataset |-> NoDataset]]
              ELSE [syn EXCEPT !.phase = "rows",
                               !.gens = [j \in DOMAIN syn.schema.fields |->
                                            map_schema_to_faker(syn.schema.fields[j].name,
                                                                syn.schema.fields[j].config)]]
    /\ UNCHANGED <<cacheVars, gov, acq, fld, txt>>

\* what the generators of the fields can do in one row
RowOutcomes ==
    {outs \in [DOMAIN syn.gens -> UNION {Outcomes(syn.gens[j]) : j \in DOMAIN syn.gens}] :
        \A j \in DOMAIN syn.gens : outs[j] \in Outcomes(syn.gens[j])}

\* generate_data lines 386-409: one pass of the loop over the rows; every
\* hundredth row reseeds the Faker instance
ProduceRow(outs) ==
    /\ syn.phase = "rows"
    /\ syn.i < syn.n
    /\ syn' = [syn EXCEPT !.data = Append(@, produce_row(syn.schema.fields, outs, syn.i)),
                          !.i = @ + 1,
                          !.used = @ + Len(syn.gens)
                                     + (IF syn.i > 0 /\ syn.i % 100 = 0 THEN 1 ELSE 0)]
    /\ UNCHANGED <<cacheVars, gov, acq, fld, txt>>

\* generate_data lines 411-419: the dataset returned
ReturnDataset ==
    /\ syn.phase = "rows"
    /\ syn.i = syn.n
    /\ syn' = [syn EXCEPT !.phase = "done",
                          !.result = [kind |-> "SyntheticDataset",
                                      dataset |-> dataset(syn.data, NamesOf(syn.schema.fields),
                                                          syn.schema.domain)]]
    /\ UNCHANGED <<cacheVars, gov, acq, fld, txt>>

DataNext ==
    \/ StartGenerate
    \/ \E outs \in RowOutcomes : ProduceRow(outs)
    \/ ReturnDataset

DataSpec == DataInit /\ [][DataNext]_vars

----------------------------------------------------------------------------
(* Claims about schema acquisition, checked under AcqSpec *)

\* C13: under any interleaving of generate_schema requests on one
\* generator, the provider calls issued within a trailing 60-second
\* window never exceed the per-minute ceiling (and those of one calendar
\* date never the daily ceiling).  The clock stands still in AcqSpec, so
\* every call counted by acq.calls lies in one window.
C13_CallsWithinCeilings == acq.calls <= PerMinute

\* what a cache call can come to other than a hit
CacheFaults == {"CacheError", "AttributeError", "TypeError", "KeyError", "ValueError", "False"}

\* the request d went on from the cache lookup to the admission check
PastLookup(d) ==
    /\ d.res.from # "cache"
    /\ \/ d.resp.kind # "none"
       \/ d.res.kind \in {"RateLimitError", "APIConnectionError"}

\* C16: generate_schema never fails because of the cache.  Whatever the
\* cache lookup came to short of a hit (a storage fault, malformed stored
\* data, no cache at all) the request goes on to the admission check and
\* the provider call, and whatever the save came to, a request whose
\* provider response was usable returns the freshly generated schema.
C16_CacheFaultsAbsorbed ==
    LET d == acq.done
    IN  /\ d.got \in CacheFaults \cup {"absent", "disabled"} => PastLookup(d)
        /\ d.resp.kind = "good" => d.res = Success(GeneratedSchema(d.key, d.resp.v), "provider")

\* C16: a request that met a fault on the lookup and a fault on the save
\* and returned its schema
C16_Witness ==
    /\ acq.done.got \in CacheFaults
    /\ acq.done.put \in CacheFaults
    /\ acq.done.res.ok
    /\ acq.done.res.from = "provider"

\* the delays of the backoff
Backoff == <<1, 2>>

\* C17: one request calls the provider at most 3 times; a call failing
\* with a rate-limit signal is retried after 1 s, then 2 s, and the third
\* such failure surfaces RateLimitError without a sleep; any other
\* failure of the call surfaces APIConnectionError at once, without sleep
\* or further call.
C17_Retry ==
    /\ [](\A r \in Reqs : /\ acq.req[r].attempt < MaxRetries
                           /\ Len(acq.req[r].slept) <= 2
                           /\ acq.req[r].slept = SubSeq(Backoff, 1, Len(acq.req[r].slept)))
    /\ [][\A r \in Reqs, e \in ProviderExceptions :
            CallFails(r, e) =>
                LET q == acq.req[r]
                IN  /\ acq'.calls = acq.calls
                    /\ IF e.rl /\ q.attempt < 2
                       THEN /\ acq'.req[r].pc = "sleeping"
                            /\ acq'.req[r].slept = Append(q.slept, Backoff[q.attempt + 1])
                            /\ acq'.done = acq.done
                       ELSE /\ acq'.req[r].pc = "idle"
                            /\ acq'.done.slept = q.slept
                            /\ acq'.done.res.kind =
                                   (IF e.rl THEN "RateLimitError" ELSE "APIConnectionError")]_vars

\* C17: a request that gave up after its third rate-limited call
C17_Witness ==
    /\ acq.done.res.kind = "RateLimitError"
    /\ acq.done.attempt = MaxRetries - 1
    /\ acq.done.slept = Backoff

\* the kinds of failure the caller is to tell apart
CallerKinds == {"ValidationError", "RateLimitError", "APIConnectionError", "SchemaGenerationError"}

\* C18: every failure of generate_schema reaches the caller as one of
\* ValidationError (bad caller input), RateLimitError, APIConnectionError
\* or SchemaGenerationError, and provider output that fails parsing or
\* schema validation surfaces as SchemaGenerationError.
C18_FourKinds ==
    LET d == acq.done
    IN  (~d.res.ok /\ d.res.kind # "none") =>
            /\ d.res.kind \in CallerKinds
            /\ d.resp.kind \in {"unparseable", "invalid"} => d.res.kind = "SchemaGenerationError"
            /\ d.res.kind = "ValidationError" => d.resp.kind = "none"

\* C19: the failure given to the caller for an unexpected exception does
\* not contain the text of that exception, so that two runs differing
\* only in that text give the caller identical failures.
C19_NoInternalText ==
    LET d == acq.done
    IN  d.resp.kind = "unexpected" =>
            /\ d.res.kind = "SchemaGenerationError"
            /\ \A i \in DOMAIN d.res.message : d.res.message[i] \notin Texts

----------------------------------------------------------------------------
(* Claims about field resolution, checked under FieldSpec *)

\* C20: field resolution is total: for every field name and every field
\* specification, whatever its method name and with or without
\* parameters, what resolution returns is a callable that can be called
\* without arguments.
C20_Total ==
    fld.phase \in {"resolved", "called"} =>
        /\ fld.gen.callable
        /\ fld.gen.required = 0

\* the method name that map_schema_to_faker passes on for the field
Hint == IF fld.config.isdict /\ fld.config.method = "absent" THEN "word" ELSE fld.config.method

\* the field is resolved
Resolved == fld.phase \in {"resolved", "called"}

\* no value pool answers for the method name m and the field name f
NoPool(f, m) ==
    \A i \in DOMAIN Domains : \A x \in DOMAIN Categories(Domains[i]) :
        LET c == Categories(Domains[i])[x]
        IN  /\ Spell(c) # Lower(Spell(m))
            /\ ~MatchesAnywhere(c, Lower(Spell(f)))
            /\ Spell(Domains[i]) = Lower(Spell(m)) => ~MatchesInDomain(c, Lower(Spell(f)))

\* C21: resolution tries built-in table, library attribute, value pool and
\* name-pattern fallback in this order and the first that matches gives
\* the generator: a name of the built-in table is resolved by its entry, a
\* library name outside the table by the library, and the fallback is
\* used only when no value pool answers.
C21_TierOrder ==
    Resolved =>
        /\ Hint \in faker_methods =>
              fld.gen.body \in {"mapped", "call_with_parameters"} /\ fld.gen.of = Hint
        /\ (Hint \notin faker_methods /\ Hint \in DOMAIN FakerAttrs) =>
              fld.gen.body \in {"attr", "apply"} /\ fld.gen.of = Hint
        /\ (Hint \notin faker_methods /\ Hint \notin DOMAIN FakerAttrs) =>
              /\ fld.gen.body \in {"choice", "fallback"}
              /\ fld.gen.body = "fallback" <=> NoPool(fld.name, Hint)

\* C21: "department", a name of the built-in table that is also a category
\* of a value pool, resolved for a field a pool would answer for
C21_Witness ==
    /\ Resolved
    /\ Hint = "department"
    /\ fld.name = "blood_type"
    /\ fld.gen.body = "mapped"

\* the field specification carries no method name: an empty mapping, an
\* empty string or a null
NoMethodHint ==
    \/ fld.config.isdict /\ fld.config.method = "absent" /\ fld.config.parameters = "none"
    \/ ~fld.config.isdict /\ fld.config.method \in {"", "None"}

\* C22: a field named email whose specification carries no method hint
\* resolves to the email generator.
C22_EmailByName ==
    (Resolved /\ fld.name = "email" /\ NoMethodHint) =>
        fld.gen.of = "email" /\ fld.gen.callable /\ fld.gen.required = 0

----------------------------------------------------------------------------
(* Claims about row synthesis, checked under DataSpec *)

\* the rows produced so far and, once returned, the rows of the dataset
RowsOf(sy) == {sy.data[r] : r \in DOMAIN sy.data}
                 \cup {sy.result.dataset.data[r] : r \in DOMAIN sy.result.dataset.data}

BloodTypeTokens == {"A+", "A-", "B+", "B-", "AB+", "AB-", "O+", "O-"}

DepartmentTokens == {"Cardiology", "Neurology", "Orthopedics", "Pediatrics", "Emergency"}

\* C23: for the schema {blood_type: "healthcare", department: "healthcare"}
\* and any valid row count, every blood_type value generated is one of the
\* 8 blood-type tokens and every department value one of the 5 healthcare
\* department tokens; the call returns a dataset of that many rows.
C23_HealthcareTokens ==
    (syn.schema = HealthcareSchema /\ syn.n \in MinRowCount..MaxRowCount)
    => /\ syn.phase # "failed"
       /\ \A row \in RowsOf(syn) :
            /\ row["blood_type"].kind = "value"
            /\ row["blood_type"].v \in BloodTypeTokens
            /\ row["department"].kind = "value"
            /\ row["department"].v \in DepartmentTokens
       /\ syn.phase = "done" => Len(syn.result.dataset.data) = syn.n

\* C23 happens: a dataset of the largest row count tried was returned for
\* the healthcare schema, its rows differing in both fields
C23_Witness ==
    /\ syn.phase = "done"
    /\ syn.schema = HealthcareSchema
    /\ syn.n = MaxRowsTried
    /\ Len(syn.result.dataset.data) = MaxRowsTried
    /\ syn.result.dataset.data[1]["blood_type"].v = "O-"
    /\ syn.result.dataset.data[2]["blood_type"].v = "AB+"
    /\ syn.result.dataset.data[1]["department"].v = "Emergency"
    /\ syn.result.dataset.data[2]["department"].v = "Cardiology"

\* C24: a row count outside the configured inclusive range (below
\* settings.MIN_ROWS or above settings.MAX_ROWS) is rejected with a
\* validation failure before any field is resolved and any generator is
\* invoked: no rows are produced and no randomness is consumed.
C24_ConfiguredRange ==
    (syn.phase \notin {"none", "request"}
        /\ (syn.n < syn.settings.MIN_ROWS \/ syn.n > syn.settings.MAX_ROWS))
    => /\ syn.phase = "failed"
       /\ syn.result.kind = "ValidationError"
       /\ syn.gens = <<>>
       /\ syn.data = <<>>
       /\ syn.used = 0

\* C25: for every schema and every valid row count n the call returns a
\* dataset of exactly n rows whose row_count is n, whose field_names are
\* the schema's field names in schema order and whose domain is the
\* schema's, every row having exactly the declared field names as keys,
\* whether or not generators fail.
C25_DatasetShape ==
    /\ syn.n \in MinRowCount..MaxRowCount => syn.phase # "failed"
    /\ syn.phase = "done" =>
          LET ds == syn.result.dataset
          IN  /\ syn.result.kind = "SyntheticDataset"
              /\ Len(ds.data) = syn.n
              /\ ds.row_count = syn.n
              /\ ds.field_names = NamesOf(syn.schema.fields)
              /\ ds.domain = syn.schema.domain
              /\ \A r \in DOMAIN ds.data :
                    DOMAIN ds.data[r] = {syn.schema.fields[j].name : j \in DOMAIN syn.schema.fields}

\* C25 happens: a dataset of the largest row count tried was returned in
\* which one generator failed in every row and another one in none
C25_Witness ==
    /\ syn.phase = "done"
    /\ syn.n = MaxRowsTried
    /\ NamesOf(syn.schema.fields) = <<"email", "x1">>
    /\ \A r \in DOMAIN syn.result.dataset.data :
          /\ syn.result.dataset.data[r]["x1"].kind = "sample"
          /\ syn.result.dataset.data[r]["email"].kind = "value"

\* C26: when the generator of field f raises while row i is produced, only
\* that cell is affected: it is the placeholder made of f and i, every
\* other cell of the row holds the value its generator returned, the rows
\* produced before are untouched, and the call still returns a dataset
\* with the full row count.
C26_CellIsolation ==
    /\ [][\A outs \in RowOutcomes :
            ProduceRow(outs) =>
                /\ syn'.phase = "rows"
                /\ Len(syn'.data) = Len(syn.data) + 1
                /\ SubSeq(syn'.data, 1, Len(syn.data)) = syn.data
                /\ \A j \in DOMAIN syn.schema.fields :
                      syn'.data[Len(syn'.data)][syn.schema.fields[j].name]
                        = IF outs[j] = "raise"
                          THEN Placeholder(syn.schema.fields[j].name, syn.i)
                          ELSE Cell("value", outs[j], "", -1)]_vars
    /\ [](syn.phase = "done" =>
            /\ syn.result.kind = "SyntheticDataset"
            /\ syn.result.dataset.data = syn.data
            /\ Len(syn.data) = syn.n)

\* C26 happens: a dataset was returned in which the generator of email
\* raised in row 0 and not in row 1, next to a generator that raised in
\* both rows
C26_Witness ==
    /\ syn.phase = "done"
    /\ NamesOf(syn.schema.fields) = <<"email", "x1">>
    /\ Len(syn.result.dataset.data) >= 2
    /\ syn.result.dataset.data[1]["email"] = Placeholder("email", 0)
    /\ syn.result.dataset.data[2]["email"].kind = "value"
    /\ syn.result.dataset.data[1]["x1"] = Placeholder("x1", 0)
    /\ syn.result.dataset.data[2]["x1"] = Placeholder("x1", 1)

----------------------------------------------------------------------------
(* KeySpec: a description and a second one reached from it by changes of *)
(* letter case, of white space and of the spacing around punctuation     *)
(* marks; then the content keys of both                                  *)

KeyInit ==
    /\ InitCacheAndGovernor
    /\ acq = NewAcq(TRUE)
    /\ fld = NoField
    /\ syn = NoSyn
    /\ txt \in {[NoTxt EXCEPT !.d1 = d, !.d2 = d, !.ev = "given"] : d \in DescriptionTexts}

\* where white space may come and go: at both ends, next to white space
\* and next to a punctuation mark
Spaceable(s, p) ==
    IF p = 0 \/ p = Len(s) THEN TRUE
    ELSE s[p] \in Whitespace \cup Marks \/ s[p + 1] \in Whitespace \cup Marks

\* the character at position i stands at an end, next to white space or
\* next to a punctuation mark
Removable(s, i) ==
    IF i = 1 \/ i = Len(s) THEN TRUE
    ELSE s[i - 1] \in Whitespace \cup Marks \/ s[i + 1] \in Whitespace \cup Marks

\* a letter is replaced by its capital, or a capital by a small letter of it
ChangeCase(i, c) ==
    /\ txt.ev # "keyed"
    /\ i \in DOMAIN txt.d2
    /\ txt.d2[i] \in Letters
    /\ c # txt.d2[i]
    /\ c = UpperChar(txt.d2[i]) \/ txt.d2[i] = UpperChar(c)
    /\ txt' = [txt EXCEPT !.d2[i] = c, !.ev = "edited"]
    /\ UNCHANGED <<cacheVars, gov, acq, fld, syn>>

\* a white space character is replaced by another one
ChangeSpace(i, w) ==
    /\ txt.ev # "keyed"
    /\ i \in DOMAIN txt.d2
    /\ txt.d2[i] \in Whitespace
    /\ w # txt.d2[i]
    /\ txt' = [txt EXCEPT !.d2[i] = w, !.ev = "edited"]
    /\ UNCHANGED <<cacheVars, gov, acq, fld, syn>>

\* a white space character is put in after position p
InsertSpace(p, w) ==
    /\ txt.ev # "keyed"
    /\ Len(txt.d2) < MaxLen
    /\ p \in 0..Len(txt.d2)
    /\ Spaceable(txt.d2, p)
    /\ txt' = [txt EXCEPT !.d2 = SubSeq(@, 1, p) \o <<w>> \o SubSeq(@, p + 1, Len(@)),
                          !.ev = "edited"]
    /\ UNCHANGED <<cacheVars, gov, acq, fld, syn>>

\* the white space character at position i is taken out
DeleteSpace(i) ==
    /\ txt.ev # "keyed"
    /\ Len(txt.d2) > 1
    /\ i \in DOMAIN txt.d2
    /\ txt.d2[i] \in Whitespace
    /\ Removable(txt.d2, i)
    /\ txt' = [txt EXCEPT !.d2 = SubSeq(@, 1, i - 1) \o SubSeq(@, i + 1, Len(@)),
                          !.ev = "edited"]
    /\ UNCHANGED <<cacheVars, gov, acq, fld, syn>>

\* generate_cache_key for both descriptions
GenerateKeys ==
    /\ txt.ev # "keyed"
    /\ txt' = [txt EXCEPT !.key1 = generate_cache_key(txt.d1),
                          !.key2 = generate_cache_key(txt.d2),
                          !.ev = "keyed"]
    /\ UNCHANGED <<cacheVars, gov, acq, fld, syn>>

KeyNext ==
    \/ \E i \in 1..MaxLen, c \in Letters : ChangeCase(i, c)
    \/ \E i \in 1..MaxLen, w \in Whitespace : ChangeSpace(i, w)
    \/ \E p \in 0..MaxLen, w \in Whitespace : InsertSpace(p, w)
    \/ \E i \in 1..MaxLen : DeleteSpace(i)
    \/ GenerateKeys

KeySpec == KeyInit /\ [][KeyNext]_vars

----------------------------------------------------------------------------
(* Claims about content keys, checked under KeySpec *)

\* 64 lowercase hexadecimal digits
LowerHex64(key) == Len(key) = HashLen /\ \A i \in DOMAIN key : key[i] \in {"0", "a"}

\* C27: two non-empty descriptions that differ only in letter case, in
\* runs of white space or in the spacing around punctuation marks have the
\* same content key; normalizing a normalized description leaves it
\* unchanged; every key is 64 lowercase hexadecimal characters that
\* validate_hash accepts.
C27_SameKey ==
    txt.ev = "keyed" =>
        /\ txt.key1 = txt.key2
        /\ \A d \in {txt.d1, txt.d2} :
              normalize_description(normalize_description(d)) = normalize_description(d)
        /\ \A key \in {txt.key1, txt.key2} : LowerHex64(key) /\ validate_hash(key)

----------------------------------------------------------------------------
(* Claims about the order of the steps of generate_schema (AcqSpec) *)

\* C28: generate_schema looks the cache up first; on a hit it returns the
\* cached schema with no admission check, no provider call and no change
\* of the rate window state; on a miss it checks admission, and a denied
\* check issues no provider call; the cache is written only in the step in
\* which the provider's output passed parsing and validation, so a failed
\* request leaves the cache unchanged.
C28_StepOrder ==
    [][LET began == acq'.n = acq.n + 1
           calling == \E r \in Reqs : acq.req[r].pc = "idle" /\ acq'.req[r].pc = "calling"
           returned == \E r \in Reqs : acq.req[r].pc = "calling" /\ acq'.req[r].pc = "idle"
           c == check_rate_limits(gov)
       IN  /\ began => (primary' = primary /\ backup' = backup)
           /\ (began /\ ~calling /\ acq'.done.got = "found") =>
                   /\ gov' = gov
                   /\ acq'.done.res.ok
                   /\ acq'.done.res.from = "cache"
           /\ (began /\ ~calling /\ acq'.done.got \notin {"found", "none"}) =>
                   /\ c.decision # "allow"
                   /\ acq'.done.res.kind = "RateLimitError"
           /\ (began /\ calling) =>
                   /\ \E r \in Reqs : acq'.req[r].pc = "calling" /\ acq'.req[r].got \notin {"found", "none"}
                   /\ c.decision = "allow"
                   /\ gov' = c.g
           /\ (primary' # primary \/ backup' # backup) =>
                   \/ acq' = acq /\ acq.n = 0
                   \/ returned /\ acq'.done.resp.kind = "good" /\ acq'.done.res.ok
           /\ (returned /\ ~acq'.done.res.ok) => (primary' = primary /\ backup' = backup)]_vars

\* C28 happens: a request was answered from the cache after an earlier one
\* had called the provider and saved its schema, and the rate window still
\* holds that one request
C28_Witness ==
    /\ acq.n = 2
    /\ acq.calls = 1
    /\ acq.done.got = "found"
    /\ acq.done.res.ok
    /\ acq.done.res.from = "cache"
    /\ gov.count = 1
    /\ Len(gov.times) = 1

----------------------------------------------------------------------------
(* Claims about the daily counter and the admission check (GovSpec) *)

\* the requests of the window that were recorded on the date of the
\* daily counter
RecordedOnDate(g) == Cardinality({i \in DOMAIN g.times : Date(g.times[i]) = g.reset})

\* C29: the daily counter is set to zero and the reset date advanced to
\* today exactly at the first admission check made on a date later than
\* the reset date, and at no other time; so every request recorded on a
\* date is counted against the ceiling of that date, one admitted before
\* midnight and recorded after it included.
C29_CountedOnItsDate ==
    /\ [][IF gov'.ev = "check" /\ Date(gov.now) > gov.reset
          THEN gov'.count = 0 /\ gov'.reset = Date(gov.now)
          ELSE gov'.reset = gov.reset /\ gov'.count >= gov.count]_vars
    /\ [](RecordedOnDate(gov) <= gov.count)

\* C30: the admission check is a query: whether it allows or denies, it
\* leaves the list of recent request instants, the daily counter and the
\* reset date as they were.
C30_CheckIsQuery ==
    [][gov'.ev = "check" =>
          /\ gov'.times = gov.times
          /\ gov'.count = gov.count
          /\ gov'.reset = gov.reset]_vars

----------------------------------------------------------------------------
(* Claims about the recording of usage (AcqSpec) *)

\* a provider call of some request returned a response in this step
Returned(a, b) ==
    /\ \E r \in Reqs : a.req[r].pc = "calling" /\ b.req[r].pc = "idle"
    /\ b.done.resp.kind # "none"

\* a provider call failed, a backoff began or ended in this step
FailedOrRetried(a, b) ==
    \/ \E r \in Reqs : a.req[r].pc = "calling" /\ b.req[r].pc = "idle" /\ b.done.resp.kind = "none"
    \/ \E r \in Reqs : a.req[r].pc = "calling" /\ b.req[r].pc = "sleeping"
    \/ \E r \in Reqs : a.req[r].pc = "sleeping" /\ b.req[r].pc = "calling"

\* C31: usage is recorded only when a provider call has returned, and
\* then as exactly one instant appended to the window list and one added
\* to the daily counter, whatever the number of retries before it; a
\* denied admission check, a request served from the cache and a failed
\* provider call record no usage.
C31_UsageOnlyOnReturn ==
    [][LET began == acq'.n = acq.n + 1
           calling == \E r \in Reqs : acq.req[r].pc = "idle" /\ acq'.req[r].pc = "calling"
       IN  /\ Returned(acq, acq') =>
                   /\ gov'.times = Append(gov.times, gov.now)
                   /\ gov'.count = gov.count + 1
           /\ ~Returned(acq, acq') =>
                   /\ gov'.count <= gov.count
                   /\ Len(gov'.times) <= Len(gov.times)
                   /\ \A i \in DOMAIN gov'.times : \E j \in DOMAIN gov.times :
                         gov'.times[i] = gov.times[j]
           /\ (began /\ ~calling /\ acq'.done.got = "found") => gov' = gov
           /\ (began /\ ~calling /\ acq'.done.res.kind = "RateLimitError") =>
                   /\ gov'.count = gov.count
                   /\ Len(gov'.times) >= PerMinute \/ gov'.count >= PerDay
           /\ FailedOrRetried(acq, acq') => gov' = gov]_vars

\* C31 happens: a request that was retried got its response, and it is
\* the one usage on record
C31_Witness ==
    /\ acq.done.attempt >= 1
    /\ acq.done.resp.kind = "good"
    /\ acq.done.res.ok
    /\ acq.calls >= 2
    /\ gov.count = 1
    /\ gov.times = <<gov.now>>

----------------------------------------------------------------------------
(* Claims about the pruning of the window (GovSpec) *)

----------------------------------------------------------------------------
(* Claims about parameters, checked under FieldSpec *)

\* the parameters of the field specification
Params == IF fld.config.isdict THEN fld.config.parameters ELSE "none"

C34_LibraryDefensive ==
    (fld.phase = "called" /\ Hint \notin faker_methods /\ Hint \in DOMAIN FakerAttrs
        /\ FakerAttrs[Hint] = "method0" /\ Params # "none") =>
        /\ fld.gen.of = Hint
        /\ fld.out = "value"
        /\ Params = "rejected" => fld.how = "degraded"

----------------------------------------------------------------------------
(* Claims about value pools and name patterns, checked under FieldSpec *)

\* the method name, lowered, is a category of some domain
NamesCategory(m) ==
    \E i \in DOMAIN Domains : \E x \in DOMAIN Categories(Domains[i]) :
        Spell(Categories(Domains[i])[x]) = Lower(Spell(m))

\* the method name, lowered, is a domain
NamesDomain(m) == \E i \in DOMAIN Domains : Spell(Domains[i]) = Lower(Spell(m))

\* C35: a field is bound to a value pool only when the method name names
\* a category of some domain or names a domain; a method name that is
\* neither in the built-in table, nor on the library, nor a category,
\* nor a domain is resolved by the name-pattern fallback (a field named
\* transaction_amount then gets the decimal generator, not a pool).
C35_PoolOnlyByMethod ==
    Resolved =>
        /\ fld.gen.body = "choice" => (NamesCategory(Hint) \/ NamesDomain(Hint))
        /\ (Hint \notin faker_methods /\ Hint \notin DOMAIN FakerAttrs
                /\ ~NamesCategory(Hint) /\ ~NamesDomain(Hint)) =>
              fld.gen.body = "fallback"

\* C36: when the method name names a domain and the field name is one of
\* the categories of that domain, the field is bound to the pool of that
\* category, for every domain and every category.
C36_OwnPool ==
    \A i \in DOMAIN Domains :
        (Resolved /\ Hint = Domains[i]
            /\ \E x \in DOMAIN Categories(Domains[i]) : Categories(Domains[i])[x] = fld.name) =>
            /\ fld.gen.body = "choice"
            /\ fld.gen.domain = Domains[i]
            /\ fld.gen.of = fld.name

\* the field name contains the keyword
Has(keyword) == Contains(Lower(Spell(fld.name)), Spell(keyword))

\* the keywords of the name-pattern fallback
Keywords == UNION {FallbackGroups[i].keys : i \in DOMAIN FallbackGroups}

\* C37: when the name-pattern fallback is reached, a name containing
\* "email" gets the email generator; one containing "price", "amount" or
\* "salary" the decimal generator; one containing "date", "birth" or
\* "created" the past-date generator; one containing "id", "count" or
\* "number" the integer generator; one containing "active", "enabled" or
\* "is_" the boolean generator; one containing no keyword the word
\* generator; also for names that contain several keywords.
C37_ByKeyword ==
    (Resolved /\ fld.gen.body = "fallback") =>
        /\ Has("email") => fld.gen.of = "email"
        /\ (Has("price") \/ Has("amount") \/ Has("salary")) => fld.gen.of = "pyfloat"
        /\ (Has("date") \/ Has("birth") \/ Has("created")) => fld.gen.of = "date_between"
        /\ (Has("id") \/ Has("count") \/ Has("number")) => fld.gen.of = "random_int"
        /\ (Has("active") \/ Has("enabled") \/ Has("is_")) => fld.gen.of = "boolean"
        /\ (\A k \in Keywords : ~Has(k)) => fld.gen.of = "word"

\* the field specification is the empty mapping
EmptyMapping ==
    fld.config.isdict /\ fld.config.method = "absent" /\ fld.config.parameters = "none"

\* C38: a field specification that is empty or is no mapping is resolved
\* as its text is, taken for the method name and without parameters: a
\* specification that is no mapping as its str(), the empty mapping as
\* the empty string or as its str().
C38_AsSimpleString ==
    Resolved =>
        /\ ~fld.config.isdict => fld.gen = get_field_generator(fld.name, fld.config.method, "none")
        /\ EmptyMapping => fld.gen \in {get_field_generator(fld.name, "", "none"),
                                         get_field_generator(fld.name, "{}", "none")}

----------------------------------------------------------------------------
(* Claims about clearing and about the backup of a put, checked under Spec *)

\* C39: after clear_cache has returned true, on a cache with any number
\* of entries, the cache holds no schema: list_cached_hashes is empty,
\* the statistics count 0 schemas, get finds no key, and the cache is
\* healthy.
C39_Cleared ==
    (last.op = "clear" /\ last.out = "True") =>
        /\ list_cached_hashes(primary, FALSE) = [out |-> "ok", hashes |-> {}]
        /\ get_cache_stats(primary, backup, FALSE).out = "ok"
        /\ get_cache_stats(primary, backup, FALSE).total_schemas = 0
        /\ \A k \in GoodKeyIds : get_cached_schema(primary, backup, {}, k).out = "absent"
        /\ is_cache_healthy(primary, FALSE) = "True"

\* a put that went to write_json_file with the backup copy and failed
\* with an I/O error, at the copy or at the write
PutFailed(c) == c.op = "put" /\ c.via = "update" /\ c.fault \in CopyFaults \cup WriteFaults

\* C40: after a put that failed with an I/O error at any step, the copy
\* to the backup included, the primary holds what it held before the put
\* or the whole new content, never older content; after a put that
\* succeeded the backup holds what the primary held before the put.
C40_NeverStale ==
    [][/\ PutFailed(last') =>
              \/ primary' = primary
              \/ primary' = UpdatedCache(primary, last'.key, last'.schema)
       /\ (last'.op = "put" /\ last'.via = "update" /\ last'.out = "True") =>
              backup' = primary]_vars

====
